---- MODULE Spec2Model ----
(***************************************************************************)
(* Call orchestration of the VoiceAgent page (src/unnamed/part_000): the   *)
(* React component state, its ref cells, the browser objects it drives     *)
(* (timers, MediaRecorder, getUserMedia requests, the playback worklet)    *)
(* and the asynchronous functions in flight (startCall, endCall,           *)
(* sendVoiceMessage, startListening).                                      *)
(*                                                                         *)
(* React semantics kept by the model:                                      *)
(*  - a setState call changes the state variable; the closures of the      *)
(*    component (startListening, toggleMic, the button props) and the ref  *)
(*    mirrors keep the values of the last render (variable rendered) until *)
(*    the next Render step, which also runs the effects;                   *)
(*  - a click handler is a discrete event: React renders synchronously at  *)
(*    its end; updates made from timers, promises, media events and        *)
(*    animation frames are rendered by a later task (action DoRender);     *)
(*  - an async function runs atomically up to its next await.              *)
(*                                                                         *)
(* Timers are untimed: a pending timer may fire at any later step.  The    *)
(* only measured duration is the one the code measures itself, the time    *)
(* since the last loud sample of a voice-detection loop.                   *)
(***************************************************************************)
EXTENDS Integers, FiniteSets, Sequences, TLC

\* ---- program constants ------------------------------------------------
SILENCE_THRESHOLD == 15
SILENCE_DURATION == 1500
MinBlobSize == 1000
DelayTooShort == 100
DelayPlaybackEnded == 300
DelayDefault == 500

\* ---- bounds of the model ----------------------------------------------
MaxRecorders == 2
MaxTimers == 2
MaxTurns == 1
MaxEvents == 2
MaxCalls == 1
MaxMicRequests == 2
MaxWork == 6
MaxLiveWork == 4
MaxResumeWork == 7
MaxLines == 2
MaxCallStarts == 2
MaxCallWork == 4
MaxAvatarStarts == 2
MaxIdentWork == 5
MaxPauseWork == 7
MaxUtterances == 3
MaxLateWork == 6
MaxContexts == 3
MaxLookups == 3
MaxLookupWork == 2
MaxActivations == 2
MaxReplies == 2
TickMs == 1500

RecorderIds == 1..MaxRecorders
TimerIds == 1..MaxTimers
TurnIds == 1..MaxTurns
\* amplitude averages read from the analyser: at the threshold and above it
Samples == {SILENCE_THRESHOLD, SILENCE_THRESHOLD + 1}
\* sizes of a finished clip: at the minimum size and above it
BlobSizes == {MinBlobSize, MinBlobSize + 1}
\* events of a response stream that act on the call state
StreamEvents == {"audio", "done", "doneEndCall"}

VARIABLES
  \* React state (useState), latest value set
  isCallActive, isListening, isSpeaking, isProcessing, isMuted, sessionId,
  useBey, callSummary, phoneInput,
  \* the state as of the last committed render: what the closures captured
  rendered,
  \* ref cells
  isRecordingRef, isMicPausedRef, isCallActiveRef, isProcessingRef,
  isSpeakingRef, autoRestartTimeoutRef, silenceTimeoutRef, mediaRecorderRef,
  streamRef, analyserRef, workletRef,
  \* browser objects
  restartTimers,   \* pending auto-restart timers
  safetyTimers,    \* pending safety-cutoff timers, named by their recorder
  recorders,       \* MediaRecorder objects
  vad,             \* voice-detection loops, named by the session that began them
  micRequests,     \* startListening calls suspended in getUserMedia
  sinkBusy,        \* the playback worklet holds audio not yet played
  sinkComplete,    \* the worklet was told the stream is complete
  \* async functions in flight
  startCalls,      \* startCall awaiting the microphone / the session response
  turns,           \* sendVoiceMessage calls
  endUser,         \* endCall calls started by the End button, awaiting the response
  sessionsCreated, \* number of sessions the server has created
  clicks,          \* presses of the call controls so far
  \* observation
  last,            \* what the last step did
  budget,          \* what a run may use: work, and calls of startCall
  \* the response stream of one turn, read line by line
  consumer,
  \* the BeyAvatar component (src/unnamed/part_001) and beyQuotaExceeded
  bey,
  \* a text of the user's recent speech and what was extracted from it
  extract,
  \* the room of the BeyAvatar component and its sendContext (part_001)
  context,
  \* identification of the user by lookup (part_000 lines 60-65, 203-290)
  lookup,
  \* the AnimatedAvatar component (src/unnamed/part_003)
  anim

vars == <<isCallActive, isListening, isSpeaking, isProcessing, isMuted,
          sessionId, useBey, callSummary, phoneInput, rendered, isRecordingRef, isMicPausedRef,
          isCallActiveRef, isProcessingRef, isSpeakingRef,
          autoRestartTimeoutRef, silenceTimeoutRef, mediaRecorderRef,
          streamRef, analyserRef, workletRef, restartTimers, safetyTimers,
          recorders, vad, micRequests, sinkBusy, sinkComplete, startCalls,
          turns, endUser, sessionsCreated, clicks, last, budget, consumer,
          bey, extract, context, lookup, anim>>

\* The whole state as one record, so that a handler is a function on it.
W ==
  [isCallActive |-> isCallActive, isListening |-> isListening,
   isSpeaking |-> isSpeaking, isProcessing |-> isProcessing,
   isMuted |-> isMuted, sessionId |-> sessionId, useBey |-> useBey,
   callSummary |-> callSummary, phoneInput |-> phoneInput,
   rendered |-> rendered, isRecordingRef |-> isRecordingRef,
   isMicPausedRef |-> isMicPausedRef, isCallActiveRef |-> isCallActiveRef,
   isProcessingRef |-> isProcessingRef, isSpeakingRef |-> isSpeakingRef,
   autoRestartTimeoutRef |-> autoRestartTimeoutRef,
   silenceTimeoutRef |-> silenceTimeoutRef,
   mediaRecorderRef |-> mediaRecorderRef, streamRef |-> streamRef,
   analyserRef |-> analyserRef, workletRef |-> workletRef,
   restartTimers |-> restartTimers, safetyTimers |-> safetyTimers,
   recorders |-> recorders, vad |-> vad, micRequests |-> micRequests,
   sinkBusy |-> sinkBusy, sinkComplete |-> sinkComplete,
   startCalls |-> startCalls, turns |-> turns, endUser |-> endUser,
   sessionsCreated |-> sessionsCreated, clicks |-> clicks,
   last |-> last, context |-> context,
   lookup |-> lookup,
   anim |-> anim]

Commit(w) ==
  /\ isCallActive' = w.isCallActive
  /\ isListening' = w.isListening
  /\ isSpeaking' = w.isSpeaking
  /\ isProcessing' = w.isProcessing
  /\ isMuted' = w.isMuted
  /\ sessionId' = w.sessionId
  /\ useBey' = w.useBey
  /\ callSummary' = w.callSummary
  /\ phoneInput' = w.phoneInput
  /\ rendered' = w.rendered
  /\ isRecordingRef' = w.isRecordingRef
  /\ isMicPausedRef' = w.isMicPausedRef
  /\ isCallActiveRef' = w.isCallActiveRef
  /\ isProcessingRef' = w.isProcessingRef
  /\ isSpeakingRef' = w.isSpeakingRef
  /\ autoRestartTimeoutRef' = w.autoRestartTimeoutRef
  /\ silenceTimeoutRef' = w.silenceTimeoutRef
  /\ mediaRecorderRef' = w.mediaRecorderRef
  /\ streamRef' = w.streamRef
  /\ analyserRef' = w.analyserRef
  /\ workletRef' = w.workletRef
  /\ restartTimers' = w.restartTimers
  /\ safetyTimers' = w.safetyTimers
  /\ recorders' = w.recorders
  /\ vad' = w.vad
  /\ micRequests' = w.micRequests
  /\ sinkBusy' = w.sinkBusy
  /\ sinkComplete' = w.sinkComplete
  /\ startCalls' = w.startCalls
  /\ turns' = w.turns
  /\ endUser' = w.endUser
  /\ sessionsCreated' = w.sessionsCreated
  /\ clicks' = w.clicks
  /\ last' = w.last
  /\ context' = w.context
  /\ lookup' = w.lookup
  /\ anim' = w.anim

\* ---- observation record -------------------------------------------------
\* op: the handler that ran; started: the recorder it opened (0: none);
\* requested: it asked for the microphone (getUserMedia); stopped: the
\* recorder it closed (0: none); replaced: it scheduled a restart over a
\* pending one; guard, blocked, late: a restart timer ran, with the value of
\* its guard and what the timer remembered; played: an audio frame went to
\* the worklet; outlived: a stream event of a turn whose call ended under it;
\* size: the size of the clip a stop event built (0: no stop event); handed:
\* the calls of sendVoiceMessage; scheduled: scheduleAutoRestart was called;
\* posted, phone: the session request was sent, with this phone number;
\* failed: a turn failed and its catch showed the error toast; denied:
\* startCall was denied the microphone and showed the toast of line 546.
NoStep ==
  [op |-> "other", started |-> 0, stopped |-> 0, replaced |-> FALSE,
   requested |-> FALSE, guard |-> FALSE, blocked |-> FALSE, late |-> 0,
   played |-> FALSE, outlived |-> FALSE, size |-> 0, handed |-> 0,
   scheduled |-> FALSE, posted |-> FALSE, phone |-> <<>>, failed |-> FALSE,
   denied |-> FALSE]

\* The handlers the properties speak about are observed by name.
Observed ==
  {"restartTimer", "vadTick", "safetyTimer", "toggleMic", "endCall",
   "audio", "done", "doneEndCall", "onstop", "ended"}

Begin(w, name) ==
  [w EXCEPT !.last = [NoStep EXCEPT !.op = IF name \in Observed
                                           THEN name ELSE "other"]]

\* A run is bounded by what it uses, MaxWork in all: a recording it opens
\* weighs two (it brings a detection loop and a safety timer), a turn it
\* sends, a stream event it receives and a press of a call control one each.
Work(w) ==
  2 * Cardinality({r \in RecorderIds : w.recorders[r].state # "none"})
  + w.clicks
  + Cardinality({t \in TurnIds : w.turns[t].pc # "none"})
  + Cardinality({<<t, n>> \in TurnIds \X (1..MaxEvents) : n <= w.turns[t].used})

Do(w) ==
  \E v \in {w} :
    /\ Work(v) <= budget.work
    /\ Commit(v)
    /\ UNCHANGED <<budget, consumer, bey, extract>>

\* A press of one of the call controls (mic, speaker, end call).
Click(w, name) == [Begin(w, name) EXCEPT !.clicks = @ + 1]

Min(a, b) == IF a < b THEN a ELSE b

\* ---- the component state and its rendered copy --------------------------
StateOf(w) ==
  [isCallActive |-> w.isCallActive, isListening |-> w.isListening,
   isSpeaking |-> w.isSpeaking, isProcessing |-> w.isProcessing,
   isMuted |-> w.isMuted, sessionId |-> w.sessionId,
   callSummary |-> w.callSummary, phoneInput |-> w.phoneInput,
   identifiedUser |-> w.lookup.identifiedUser,
   isLookingUp |-> w.lookup.isLookingUp]

\* ---- recorders ----------------------------------------------------------
\* state: "none" (not created yet), "recording", "stopping" (inactive, its
\* stop event not yet delivered), "inactive".  cur: it records from the
\* stream streamRef holds.  loud: a sample above the threshold was read
\* while it was open.  by: what closed it.
NoRecorder == [state |-> "none", cur |-> FALSE, loud |-> FALSE, by |-> "none"]

Recording(w) == {r \in RecorderIds : w.recorders[r].state = "recording"}

FreeRecorderIds(w) == {r \in RecorderIds : w.recorders[r].state = "none"}

StopRecorder(w, r, why) ==
  [w EXCEPT !.recorders[r].state = "stopping", !.recorders[r].by = why,
            !.last.stopped = r]


\* ---- the auto-restart timer (lines 95-116) ------------------------------
\* The guard without its test of the pause flag.
RestartGuardIgnoresPause(w) ==
  /\ w.isCallActiveRef
  /\ ~w.isRecordingRef
  /\ ~w.isProcessingRef
  /\ ~w.isSpeakingRef

\* The condition the timer callback tests when it runs (lines 106-112).
RestartGuard(w) ==
  /\ w.isCallActiveRef
  /\ ~w.isRecordingRef
  /\ ~w.isMicPausedRef
  /\ ~w.isProcessingRef
  /\ ~w.isSpeakingRef

\* if (autoRestartTimeoutRef.current) { clearTimeout(...); ... = null }
clearAutoRestart(w) ==
  IF w.autoRestartTimeoutRef # 0
  THEN [w EXCEPT !.restartTimers = {t \in @ : t.id # w.autoRestartTimeoutRef},
                 !.autoRestartTimeoutRef = 0]
  ELSE w

FreshTimerId(w) ==
  CHOOSE i \in TimerIds :
    /\ i \notin {t.id : t \in w.restartTimers}
    /\ \A j \in TimerIds : j < i => j \in {t.id : t \in w.restartTimers}

\* One of the conditions that forbid a restart holds.
Blocking(w) ==
  \/ ~w.isCallActive
  \/ w.isRecordingRef
  \/ w.isMicPausedRef
  \/ w.isProcessing
  \/ w.isSpeaking

\* The same without clearing the pending timer first.
scheduleAutoRestartNoClear(w, delay) ==
  LET i == FreshTimerId(w)
  IN [w EXCEPT !.restartTimers =
                  @ \cup {[id |-> i, blocked |-> Blocking(w), late |-> 0]},
               !.autoRestartTimeoutRef = i,
               !.last.scheduled = TRUE]

\* A timer remembers, for the properties, whether a forbidding condition
\* held when it was scheduled (blocked) and, when a turn scheduled it after
\* endCall had run under that turn, the turn's session (late, set by the
\* caller; 0 otherwise).
scheduleAutoRestart(w, delay) ==
  LET c == clearAutoRestart(w)
      i == FreshTimerId(c)
  IN [c EXCEPT !.restartTimers =
                  @ \cup {[id |-> i, blocked |-> Blocking(w),
                           late |-> 0]},
               !.autoRestartTimeoutRef = i,
               !.last.replaced = (c.restartTimers # w.restartTimers),
               !.last.scheduled = TRUE]

\* ---- playback (lines 382-396) -------------------------------------------
\* isMutedSeen: the isMuted value the calling closure captured.
playAudio(w, isMutedSeen) ==
  IF ~w.workletRef \/ isMutedSeen
  THEN w
  ELSE [w EXCEPT !.sinkBusy = TRUE, !.isSpeaking = TRUE, !.last.played = TRUE]

clearAudio(w) ==
  [w EXCEPT !.sinkBusy = IF w.workletRef THEN FALSE ELSE @,
            !.isSpeaking = FALSE]

signalAudioComplete(w) ==
  [w EXCEPT !.sinkComplete = IF w.workletRef THEN TRUE ELSE @]

\* ---- voice activity detection (lines 399-433) ---------------------------
\* A loop holds hasSpoken and the time since lastSoundTime (silent), which
\* saturates one tick above SILENCE_DURATION.
NoLoop == [on |-> FALSE, hasSpoken |-> FALSE, silent |-> 0]

MarkLoud(w) ==
  [w EXCEPT !.recorders =
     [r \in RecorderIds |->
        IF w.recorders[r].state = "recording"
        THEN [w.recorders[r] EXCEPT !.loud = TRUE]
        ELSE w.recorders[r]]]

\* One run of checkAudioLevel of loop l with the average amp.
checkAudioLevel(w, l, amp) ==
  IF ~w.isRecordingRef
  THEN [w EXCEPT !.vad[l] = NoLoop]
  ELSE IF amp > SILENCE_THRESHOLD
  THEN [MarkLoud(w) EXCEPT !.vad[l].hasSpoken = TRUE, !.vad[l].silent = 0]
  ELSE IF w.vad[l].hasSpoken /\ w.vad[l].silent > SILENCE_DURATION
  THEN LET m == w.mediaRecorderRef
           w1 == [w EXCEPT !.vad[l] = NoLoop]
       IN IF m # 0 /\ w.recorders[m].state = "recording"
          THEN [StopRecorder(w1, m, "vad") EXCEPT !.isRecordingRef = FALSE,
                                                  !.isListening = FALSE]
          ELSE w1
  ELSE w

\* startVoiceDetection called by the session of recorder r; the first
\* checkAudioLevel runs at once (line 432).
startVoiceDetection(w, r, amp) ==
  IF ~w.analyserRef
  THEN w
  ELSE checkAudioLevel(
         [w EXCEPT !.vad[r] = [on |-> TRUE, hasSpoken |-> FALSE, silent |-> 0]],
         r, amp)

\* ---- capture (lines 436-521) --------------------------------------------
\* The same without the safety timer.
StartRecorderNoSafetyTimer(w, amp) ==
  LET r == CHOOSE x \in FreeRecorderIds(w) :
             \A y \in FreeRecorderIds(w) : x <= y
      w1 == [w EXCEPT !.recorders[r] =
                         [state |-> "recording", cur |-> TRUE,
                          loud |-> FALSE, by |-> "none"],
                      !.mediaRecorderRef = r,
                      !.isRecordingRef = TRUE,
                      !.isListening = TRUE,
                      !.last.started = r]
  IN startVoiceDetection(w1, r, amp)

\* Lines 455-491: the part of startListening after the stream is there.
StartRecorder(w, amp) ==
  LET r == CHOOSE x \in FreeRecorderIds(w) :
             \A y \in FreeRecorderIds(w) : x <= y
      w1 == [w EXCEPT !.recorders[r] =
                         [state |-> "recording", cur |-> TRUE,
                          loud |-> FALSE, by |-> "none"],
                      !.mediaRecorderRef = r,
                      !.isRecordingRef = TRUE,
                      !.isListening = TRUE,
                      !.last.started = r]
      w2 == startVoiceDetection(w1, r, amp)
  IN [w2 EXCEPT !.safetyTimers = @ \cup {r}, !.silenceTimeoutRef = r]

\* Lines 441-453: a new stream replaces the one streamRef held.
AcquireStream(w) ==
  [w EXCEPT !.streamRef = TRUE, !.analyserRef = TRUE,
            !.recorders = [r \in RecorderIds |->
                             [w.recorders[r] EXCEPT !.cur = FALSE]]]

\* startListening up to its first await.  isProcessing and isSpeaking are
\* the values its closure captured at the last render (line 437).
startListening(w, amp) ==
  IF w.isRecordingRef \/ w.rendered.isProcessing \/ w.rendered.isSpeaking
  THEN w
  ELSE IF ~w.streamRef
  THEN [w EXCEPT !.micRequests = @ + 1, !.last.requested = TRUE]
  ELSE StartRecorder(w, amp)

stopListening(w) ==
  LET w1 == IF w.silenceTimeoutRef # 0
            THEN [w EXCEPT !.safetyTimers = @ \ {w.silenceTimeoutRef},
                           !.silenceTimeoutRef = 0]
            ELSE w
      m == w.mediaRecorderRef
      w2 == IF m # 0 /\ w1.recorders[m].state = "recording"
            THEN StopRecorder(w1, m, "manual")
            ELSE w1
  IN [w2 EXCEPT !.isRecordingRef = FALSE, !.isListening = FALSE]

\* The callback of the safety timer of recorder r (lines 485-491).
safetyTimeout(w, r) ==
  LET w1 == [w EXCEPT !.safetyTimers = @ \ {r}]
  IN IF w1.recorders[r].state = "recording"
     THEN [StopRecorder(w1, r, "safety") EXCEPT !.isRecordingRef = FALSE,
                                                !.isListening = FALSE]
     ELSE w1

\* ---- render and effects (lines 84-92, 504-506, 823-825, 860-870) --------
\* An effect runs only when one of its dependencies changed since the last
\* render; all cleanups run before the effect bodies.
Render(w) ==
  LET old == w.rendered
      new == StateOf(w)
      w1 == [w EXCEPT
               !.rendered = new,
               !.isCallActiveRef =
                  IF new.isCallActive # old.isCallActive
                  THEN new.isCallActive ELSE @,
               !.isProcessingRef =
                  IF new.isProcessing # old.isProcessing
                  THEN new.isProcessing ELSE @,
               !.isSpeakingRef =
                  IF new.isSpeaking # old.isSpeaking
                  THEN new.isSpeaking ELSE @]
      changed == \/ new.isCallActive # old.isCallActive
                 \/ new.isListening # old.isListening
                 \/ new.isProcessing # old.isProcessing
                 \/ new.isSpeaking # old.isSpeaking
      w2 == IF changed THEN clearAutoRestart(w1) ELSE w1
  IN IF /\ changed
        /\ ~w.useBey
        /\ new.isCallActive
        /\ ~new.isListening
        /\ ~new.isProcessing
        /\ ~new.isSpeaking
     THEN scheduleAutoRestart(w2, DelayDefault)
     ELSE w2


\* ---- endCall (lines 609-694) --------------------------------------------
\* streamRef.current.getTracks().forEach(t => t.stop()): a recorder still
\* recording from that stream is stopped by the browser.
ReleaseStream(w) ==
  [w EXCEPT !.streamRef = FALSE, !.analyserRef = FALSE,
            !.recorders =
               [r \in RecorderIds |->
                  IF w.streamRef /\ w.recorders[r].cur
                     /\ w.recorders[r].state = "recording"
                  THEN [state |-> "stopping", cur |-> FALSE,
                        loud |-> w.recorders[r].loud, by |-> "trackEnded"]
                  ELSE [w.recorders[r] EXCEPT !.cur = FALSE]]]

\* endCall up to its await (lines 610-632); sid: the sessionId its closure
\* captured.  endCallRuns: endCall goes past its first line.
endCallRuns(sid) == sid # 0

Running == {"request", "stream", "awaitEnd"}

\* Observation: the turns under way when endCall runs are marked cut.
CutTurns(w) ==
  [w EXCEPT !.turns = [t \in TurnIds |->
                         IF w.turns[t].pc \in Running
                         THEN [w.turns[t] EXCEPT !.cut = TRUE]
                         ELSE w.turns[t]]]

\* The same without cancelling the pending restart.
endCallKeepsRestart(w, sid) ==
  IF ~endCallRuns(sid)
  THEN w
  ELSE LET w1 == [w EXCEPT !.isCallActiveRef = FALSE]
           w2 == stopListening(clearAudio([w1 EXCEPT !.isProcessing = TRUE]))
       IN CutTurns(ReleaseStream(w2))

endCall(w, sid) ==
  IF ~endCallRuns(sid)
  THEN w
  ELSE LET w1 == clearAutoRestart([w EXCEPT !.isCallActiveRef = FALSE])
           w2 == stopListening(clearAudio([w1 EXCEPT !.isProcessing = TRUE]))
       IN CutTurns(ReleaseStream(w2))

\* endCall after the response (lines 646-693).
endCallResult(w, ok) ==
  IF ok
  THEN [w EXCEPT !.isCallActive = FALSE, !.isListening = FALSE,
                 !.isSpeaking = FALSE, !.isProcessing = FALSE,
                 !.callSummary = TRUE,
                 !.startCalls.open = 0,
                 !.turns = [t \in TurnIds |->
                              IF w.turns[t].pc \in Running
                              THEN [w.turns[t] EXCEPT !.outlived = TRUE]
                              ELSE w.turns[t]]]
  ELSE [w EXCEPT !.isProcessing = FALSE]

\* ---- sendVoiceMessage (lines 696-820) -----------------------------------
\* pc: "none" (not started yet), "request", "stream", "awaitEnd", "over".
\* used: the stream events it has received.
\* cut: endCall ran while it was under way; outlived: its call ended while
\* it was under way.
NoTurn ==
  [pc |-> "none", sessionId |-> 0, isMuted |-> FALSE, used |-> 0,
   cut |-> FALSE, outlived |-> FALSE]

FreeTurnIds(w) == {t \in TurnIds : w.turns[t].pc = "none"}

\* Lines 697-716, called through sendVoiceMessageRef: the closure of the
\* last render, with its sessionId and its playAudio (isMuted).
sendVoiceMessage(w) ==
  IF w.rendered.sessionId = 0
  THEN [w EXCEPT !.last.handed = @ + 1]
  ELSE LET t == CHOOSE x \in FreeTurnIds(w) : \A y \in FreeTurnIds(w) : x <= y
       IN [w EXCEPT !.last.handed = @ + 1,
                    !.isProcessing = TRUE,
                    !.turns[t] = [pc |-> "request",
                                  sessionId |-> w.rendered.sessionId,
                                  isMuted |-> w.rendered.isMuted,
                                  used |-> 0, cut |-> FALSE, outlived |-> FALSE]]

\* finally { setIsProcessing(false) }
turnFinally(w, t) ==
  [w EXCEPT !.isProcessing = FALSE,
            !.turns[t] = [NoTurn EXCEPT !.pc = "over", !.used = w.turns[t].used]]

\* The catch without finally.
turnFailsSkipsFinally(w, t) ==
  [w EXCEPT !.turns[t] = [NoTurn EXCEPT !.pc = "over", !.used = w.turns[t].used],
            !.last.failed = TRUE]

\* catch (lines 810-816): the toast; then finally.
turnFails(w, t) == [turnFinally(w, t) EXCEPT !.last.failed = TRUE]

TagLate(w, sid) ==
  [w EXCEPT !.restartTimers =
     {IF x.id = w.autoRestartTimeoutRef THEN [x EXCEPT !.late = sid] ELSE x
        : x \in w.restartTimers}]

\* One event of the stream of turn t (lines 741-802).
dispatch(w, t, ev) ==
  LET stale == IF w.turns[t].cut THEN w.turns[t].sessionId ELSE 0
      w0 == [w EXCEPT !.turns[t].used = @ + 1,
                      !.last.outlived = w.turns[t].outlived]
  IN CASE ev = "audio" ->
            IF ~w0.useBey THEN playAudio(w0, w0.turns[t].isMuted) ELSE w0
       [] ev = "done" ->
            TagLate(scheduleAutoRestart(signalAudioComplete(w0), DelayDefault),
                    stale)
       [] ev = "doneEndCall" ->
            LET w1 == endCall(signalAudioComplete(w0), w0.turns[t].sessionId)
            IN [w1 EXCEPT !.turns[t].pc = "awaitEnd"]

\* The same without the test of the size: every clip is sent.
onstopSendsEveryClip(w, r, size) ==
  LET w1 == [w EXCEPT !.recorders[r] = [NoRecorder EXCEPT !.state = "inactive"],
                      !.last.size = size]
  IN sendVoiceMessage(w1)

\* mediaRecorder.onstop (lines 465-474).
onstop(w, r, size) ==
  LET w1 == [w EXCEPT !.recorders[r] = [NoRecorder EXCEPT !.state = "inactive"],
                      !.last.size = size]
  IN IF size > MinBlobSize
     THEN sendVoiceMessage(w1)
     ELSE scheduleAutoRestart(w1, DelayTooShort)

\* ---- the response stream, line by line (lines 723-809) ------------------
\* Text is a sequence of characters.  A payload is written in a short form
\* that stands for its JSON text: {u} user_transcript, {s1} {s2}
\* tool_call_start with id 1 or 2, {e1} {e2} tool_call_end, {t} transcript,
\* {a} audio, {d} done, {d!} done with endCall, {r} error.
Prefix == <<"d", "a", "t", "a", ":", " ">>

Newline == "\n"

SyntaxError == [type |-> "SyntaxError"]

Event(type, id, data, ends) ==
  [type |-> type, id |-> id, data |-> data, endCall |-> ends]

\* JSON.parse (line 739) on the short form.
JSONparse(s) ==
  IF Len(s) = 3 /\ s[1] = "{" /\ s[3] = "}"
  THEN CASE s[2] = "u" -> Event("user_transcript", 0, <<"h">>, FALSE)
         [] s[2] = "t" -> Event("transcript", 0, <<"h">>, FALSE)
         [] s[2] = "a" -> Event("audio", 0, <<>>, FALSE)
         [] s[2] = "d" -> Event("done", 0, <<>>, FALSE)
         [] s[2] = "r" -> Event("error", 0, <<>>, FALSE)
         [] OTHER -> SyntaxError
  ELSE IF Len(s) = 4 /\ s[1] = "{" /\ s[4] = "}"
  THEN CASE s[2] = "s" /\ s[3] = "1" -> Event("tool_call_start", 1, <<>>, FALSE)
         [] s[2] = "s" /\ s[3] = "2" -> Event("tool_call_start", 2, <<>>, FALSE)
         [] s[2] = "e" /\ s[3] = "1" -> Event("tool_call_end", 1, <<>>, FALSE)
         [] s[2] = "e" /\ s[3] = "2" -> Event("tool_call_end", 2, <<>>, FALSE)
         [] s[2] = "d" /\ s[3] = "!" -> Event("done", 0, <<>>, TRUE)
         [] OTHER -> SyntaxError
  ELSE SyntaxError

\* line.startsWith("data: ") (line 736)
startsWith(line, prefix) ==
  Len(line) >= Len(prefix) /\ SubSeq(line, 1, Len(prefix)) = prefix

\* line.slice(6)
slice(line, n) == SubSeq(line, n + 1, Len(line))

\* text.split("\n"): the pieces between the newlines, one more than there
\* are newlines.
RECURSIVE split(_)
split(text) ==
  IF \A i \in 1..Len(text) : text[i] # Newline
  THEN <<text>>
  ELSE LET i == CHOOSE j \in 1..Len(text) :
                  text[j] = Newline /\ \A k \in 1..(j - 1) : text[k] # Newline
       IN <<SubSeq(text, 1, i - 1)>> \o split(SubSeq(text, i + 1, Len(text)))

\* The state of the consumer.  body: the bytes of the response; read: how
\* many of them reader.read() has returned; chunks: in how many chunks;
\* carried: a chunk ended inside a line; buffer, assistantTranscript: the
\* locals of lines 724-725; pending: the lines of the current chunk the for
\* loop has not reached yet; messages, currentTranscript, toolCalls: the
\* React state of lines 46-48; toasts: the error toasts of line 812;
\* seen: the messages captured by the endCall this turn calls; transcript:
\* the transcript that endCall posted;
\* logged: the console.error calls of line 805; dispatched: the events that
\* reached the switch.
NoStream ==
  [body |-> <<>>, read |-> 0, chunks |-> 0, carried |-> FALSE,
   buffer |-> <<>>, pending |-> <<>>, assistantTranscript |-> <<>>,
   currentTranscript |-> <<>>, messages |-> <<>>, toolCalls |-> <<>>,
   toasts |-> 0, logged |-> 0, dispatched |-> <<>>,
   seen |-> <<>>, transcript |-> <<>>]

\* The welcome message of the local path (lines 581-588), its text cut
\* short.
Welcome == [role |-> "assistant", content |-> <<"H", "i">>]

\* The consumer's state when the first turn of a call of the local path is
\* handed to sendVoiceMessage: the welcome message is the one message, and
\* the endCall that this sendVoiceMessage holds has captured it.
FirstStream == [NoStream EXCEPT !.messages = <<Welcome>>, !.seen = <<Welcome>>]

\* One line of the transcript (line 637).
TranscriptLine(m) ==
  (IF m.role = "assistant" THEN <<"A", "I">> ELSE <<"U", "s", "e", "r">>)
    \o <<":", " ">> \o m.content

\* messages.map(...).join("\n") (lines 636-638).
RECURSIVE Transcript(_)
Transcript(ms) ==
  IF ms = <<>>
  THEN <<>>
  ELSE IF Len(ms) = 1
  THEN TranscriptLine(ms[1])
  ELSE TranscriptLine(ms[1]) \o <<Newline>> \o Transcript(Tail(ms))

\* The request of endCall called from the stream loop (lines 634-644): the
\* transcript is made of the messages that endCall captured.
postTranscript(c) == [c EXCEPT !.transcript = Transcript(c.seen)]

\* The turn whose response the consumer reads.
ConsumerTurn == 1

\* The same, creating a record when no record has the id.
toolCallEndCreatesRecord(toolCalls, id) ==
  IF \E i \in DOMAIN toolCalls : toolCalls[i].id = id
  THEN [i \in DOMAIN toolCalls |->
          IF toolCalls[i].id = id
          THEN [toolCalls[i] EXCEPT !.status = "completed", !.result = TRUE]
          ELSE toolCalls[i]]
  ELSE Append(toolCalls, [id |-> id, status |-> "completed", result |-> TRUE])

\* prev.map(tc => tc.id === event.id ? {...tc, result, status} : tc)
toolCallEnd(toolCalls, id) ==
  [i \in DOMAIN toolCalls |->
     IF toolCalls[i].id = id
     THEN [toolCalls[i] EXCEPT !.status = "completed", !.result = TRUE]
     ELSE toolCalls[i]]

\* The same, appending the message also when the transcript is empty.
flushTranscriptAlways(c) ==
  [c EXCEPT !.messages = Append(@, [role |-> "assistant",
                                    content |-> c.assistantTranscript]),
            !.currentTranscript = <<>>]

\* The done case (lines 780-798) on the consumer's own state.
flushTranscript(c) ==
  [c EXCEPT !.messages =
              IF c.assistantTranscript # <<>>
              THEN Append(@, [role |-> "assistant",
                              content |-> c.assistantTranscript])
              ELSE @,
            !.currentTranscript = <<>>]

\* switch (event.type) (lines 741-802) on the pair st of the call state w
\* and the consumer state c.  The thrown Error of the error case is caught
\* by the catch of line 803 and logged.
consume(st, ev) ==
  LET w == st.w
      c == [st.c EXCEPT !.dispatched = Append(@, ev)]
  IN CASE ev.type = "user_transcript" ->
            [w |-> w,
             c |-> [c EXCEPT !.messages =
                               Append(@, [role |-> "user", content |-> ev.data])]]
       [] ev.type = "tool_call_start" ->
            [w |-> w,
             c |-> [c EXCEPT !.toolCalls =
                               Append(@, [id |-> ev.id, status |-> "running",
                                          result |-> FALSE])]]
       [] ev.type = "tool_call_end" ->
            [w |-> w, c |-> [c EXCEPT !.toolCalls = toolCallEnd(@, ev.id)]]
       [] ev.type = "transcript" ->
            [w |-> w,
             c |-> [c EXCEPT !.assistantTranscript = @ \o ev.data,
                             !.currentTranscript =
                                c.assistantTranscript \o ev.data]]
       [] ev.type = "audio" ->
            [w |-> dispatch(w, ConsumerTurn, "audio"), c |-> c]
       [] ev.type = "done" ->
            [w |-> dispatch(w, ConsumerTurn,
                            IF ev.endCall THEN "doneEndCall" ELSE "done"),
             c |-> IF ev.endCall /\ endCallRuns(w.turns[ConsumerTurn].sessionId)
                   THEN postTranscript(flushTranscript(c))
                   ELSE flushTranscript(c)]
       [] ev.type = "error" ->
            [w |-> w, c |-> [c EXCEPT !.logged = @ + 1]]

\* The same, leaving the loop on a payload that does not parse.
dispatchLineStopsAtBadPayload(st, line) ==
  IF ~startsWith(line, Prefix)
  THEN st
  ELSE LET ev == JSONparse(slice(line, 6))
       IN IF ev = SyntaxError
          THEN [st EXCEPT !.c.pending = <<>>]
          ELSE consume(st, ev)

\* The body of the for loop for one line (lines 736-807).
dispatchLine(st, line) ==
  IF ~startsWith(line, Prefix)
  THEN st
  ELSE LET ev == JSONparse(slice(line, 6))
       IN IF ev = SyntaxError THEN st ELSE consume(st, ev)

\* The same, forgetting the unfinished line of the chunk before.
readChunkDropsBuffer(c, k) ==
  LET pieces == split(SubSeq(c.body, c.read + 1, c.read + k))
  IN [c EXCEPT !.read = @ + k,
               !.chunks = @ + 1,
               !.carried = @ \/ pieces[Len(pieces)] # <<>>,
               !.pending = SubSeq(pieces, 1, Len(pieces) - 1),
               !.buffer = pieces[Len(pieces)]]

\* Lines 731-733 for a chunk of k bytes.
readChunk(c, k) ==
  LET pieces == split(c.buffer \o SubSeq(c.body, c.read + 1, c.read + k))
  IN [c EXCEPT !.read = @ + k,
               !.chunks = @ + 1,
               !.carried = @ \/ pieces[Len(pieces)] # <<>>,
               !.pending = SubSeq(pieces, 1, Len(pieces) - 1),
               !.buffer = pieces[Len(pieces)]]

\* The name under which a line's event is observed.
OpOf(line) ==
  IF ~startsWith(line, Prefix)
  THEN "other"
  ELSE LET ev == JSONparse(slice(line, 6))
       IN IF ev.type = "done"
          THEN IF ev.endCall THEN "doneEndCall" ELSE "done"
          ELSE ev.type

\* ---- toggles (lines 828-843) --------------------------------------------
toggleMic(w, amp) ==
  IF w.rendered.isListening
  THEN stopListening([w EXCEPT !.isMicPausedRef = TRUE])
  ELSE startListening([w EXCEPT !.isMicPausedRef = FALSE], amp)

toggleMute(w) ==
  LET w1 == [w EXCEPT !.isMuted = ~@]
  IN IF ~w.rendered.isMuted THEN clearAudio(w1) ELSE w1

\* VoiceControls: disabled={disabled || !isCallActive}, disabled={isProcessing}
ControlsEnabled == rendered.isCallActive /\ ~rendered.isProcessing

\* Room for one more recorder and one more suspended start.
CanStart(w) == FreeRecorderIds(w) # {} /\ w.micRequests < MaxMicRequests

\* ---- the phone number (lines 58, 939-965) ----------------------------------
\* A phone input is a sequence of characters.
NoPhone == <<>>

TypedPhone == <<"5", "5", "5", "-", "1", "2", "3", "-", "4", "5", "6", "7">>

ShortPhone == <<"5", "5", "5", "-", "1", "2", "3", "4">>

PhoneInputs == {NoPhone, ShortPhone, TypedPhone}

IsDigit(c) == c \in {"0", "1", "2", "3", "4", "5", "6", "7", "8", "9"}

\* phoneInput.replace(/\D/g, "")
Digits(text) == SelectSeq(text, IsDigit)

\* disabled={phoneInput.replace(/\D/g, "").length < 10} (line 960)
StartDisabled(text) == Len(Digits(text)) < 10

\* The remove-at-index of a sequence.
Without(q, i) == SubSeq(q, 1, i - 1) \o SubSeq(q, i + 1, Len(q))

\* startCall up to its await of the microphone (local path) or of the
\* session response (lines 523-559); initAudio has succeeded or not.  The
\* request will carry the phoneInput its closure captured at the last render.
startCall(w, audioOk) ==
  LET w1 == [w EXCEPT !.workletRef = @ \/ audioOk]
  IN IF ~w1.useBey
     THEN [w1 EXCEPT !.startCalls.mic = @ + 1,
                     !.startCalls.micPhones = Append(@, w.rendered.phoneInput)]
     ELSE [w1 EXCEPT !.startCalls.fetch = @ + 1,
                     !.last.posted = TRUE,
                     !.last.phone = w.rendered.phoneInput]

\* Lines 849-856.
handleNewCall(w, audioOk) ==
  startCall([w EXCEPT !.callSummary = FALSE, !.phoneInput = NoPhone,
                      !.lookup.identifiedUser = FALSE,
                      !.lookup.allowed = TRUE], audioOk)

\* ---- actions ------------------------------------------------------------
\* The Start Call button of the start page (lines 957-964).
StartCallClick ==
  /\ ~rendered.isCallActive /\ ~rendered.callSummary
  /\ ~StartDisabled(rendered.phoneInput)
  /\ sessionsCreated + startCalls.mic + startCalls.fetch < budget.calls
  /\ \E audioOk \in BOOLEAN :
       Do(Render(startCall(Begin(W, "startCall"), audioOk)))

\* Start New Call of the summary (lines 1288-1293).
NewCallClick ==
  /\ rendered.callSummary
  /\ sessionsCreated + startCalls.mic + startCalls.fetch < budget.calls
  /\ \E audioOk \in BOOLEAN :
       Do(Render(handleNewCall(Begin(W, "newCall"), audioOk)))

\* The summary is closed (onClose, line 1291).
CloseSummaryClick ==
  /\ rendered.callSummary
  /\ Do(Render([Begin(W, "closeSummary") EXCEPT !.callSummary = FALSE]))

\* The phone input of the start page (lines 939-945) or of the call layout
\* (lines 1144-1151) is edited to text.
TypePhone ==
  /\ ~rendered.callSummary
  /\ \E text \in PhoneInputs \ {rendered.phoneInput} :
       Do(Render([Click(W, "typePhone") EXCEPT !.phoneInput = text]))

\* The same, going on to the session request without a stream.
startCallMicDeniedGoesOn(w, phone) ==
  [w EXCEPT !.last.denied = TRUE,
            !.startCalls.fetch = @ + 1,
            !.last.posted = TRUE,
            !.last.phone = phone]

\* catch (micError) of startCall (lines 544-552): the toast, and return.
startCallMicDenied(w, phone) == [w EXCEPT !.last.denied = TRUE]

\* getUserMedia of startCall settles (lines 531-552).
StartCallMic ==
  /\ startCalls.mic > 0
  /\ \E granted \in BOOLEAN, i \in 1..Len(startCalls.micPhones) :
       LET w0 == Begin(W, "startCallMic")
           w1 == [w0 EXCEPT !.startCalls.mic = @ - 1,
                            !.startCalls.micPhones = Without(@, i)]
       IN Do(IF granted
                 THEN [AcquireStream(w1) EXCEPT
                         !.startCalls.fetch = @ + 1,
                         !.last.posted = TRUE,
                         !.last.phone = startCalls.micPhones[i]]
                 ELSE startCallMicDenied(w1, startCalls.micPhones[i]))

\* The session request of startCall settles (lines 555-606).
StartCallSession ==
  /\ startCalls.fetch > 0
  /\ \E ok \in BOOLEAN :
       LET w0 == Begin(W, "startCallSession")
           w1 == [w0 EXCEPT !.startCalls.fetch = @ - 1]
           w2 == [w1 EXCEPT !.sessionsCreated = @ + 1,
                            !.startCalls.open = @ + 1,
                            !.sessionId = w1.sessionsCreated + 1,
                            !.isCallActive = TRUE,
                            !.callSummary = FALSE,
                            !.isMicPausedRef = FALSE,
                            !.lookup.identifiedUser = FALSE,
                            !.lookup.autoDetectionTriggeredRef = FALSE,
                            !.lookup.allowed = TRUE]
       IN Do(IF ~ok THEN w1
                 ELSE IF ~w2.useBey THEN scheduleAutoRestart(w2, DelayDefault)
                 ELSE w2)

ToggleMicClick ==
  /\ ControlsEnabled
  /\ rendered.isListening \/ CanStart(W)
  /\ \E amp \in Samples :
       Do(Render(toggleMic(Click(W, "toggleMic"), amp)))

ToggleMuteClick ==
  /\ ControlsEnabled
  /\ Do(Render(toggleMute(Click(W, "toggleMute"))))

EndCallClick ==
  /\ ControlsEnabled
  /\ LET w1 == endCall(Click(W, "endCall"), rendered.sessionId)
     IN Do(Render([w1 EXCEPT !.endUser =
                          IF endCallRuns(rendered.sessionId) THEN @ + 1 ELSE @]))

\* The call-end request of an endCall settles: of one the End button
\* started, or of one a turn awaits.
EndUserResponse ==
  \E ok \in BOOLEAN :
    /\ endUser > 0
    /\ Do(endCallResult([Begin(W, "endCallResponse")
                               EXCEPT !.endUser = @ - 1], ok))

EndTurnResponse ==
  \E ok \in BOOLEAN, t \in TurnIds :
    /\ turns[t].pc = "awaitEnd"
    /\ Do(endCallResult([Begin(W, "endCallResponse")
                               EXCEPT !.turns[t].pc = "stream"], ok))

EndCallResponse ==
  \/ EndUserResponse
  \/ EndTurnResponse

\* getUserMedia of a suspended startListening settles (lines 442-453).
MicPermissionResult ==
  /\ micRequests > 0
  /\ \E granted \in BOOLEAN, amp \in Samples :
       LET w1 == [Begin(W, "micPermission") EXCEPT !.micRequests = @ - 1]
       IN IF granted
          THEN /\ FreeRecorderIds(W) # {}
               /\ Do(StartRecorder(AcquireStream(w1), amp))
          ELSE Do(w1)

DoRender ==
  /\ StateOf(W) # rendered
  /\ Do(Render(Begin(W, "render")))

\* The callback of a pending auto-restart timer (lines 102-115).
RestartTimerFires ==
  \E t \in restartTimers, amp \in Samples :
    LET w0 == Begin(W, "restartTimer")
        w1 == [w0 EXCEPT !.restartTimers = @ \ {t},
                         !.autoRestartTimeoutRef = 0,
                         !.last.guard = RestartGuard(W),
                         !.last.blocked = t.blocked,
                         !.last.late = t.late]
    IN IF RestartGuard(w1)
       THEN /\ CanStart(W)
            /\ Do(startListening(w1, amp))
       ELSE Do(w1)

SafetyTimerFires(r) ==
  /\ r \in safetyTimers
  /\ Do(safetyTimeout(Begin(W, "safetyTimer"), r))

\* Time passes: every running loop is TickMs further from its last sound.
\* (lastSoundTime is read only once hasSpoken is set, line 419.)
Tick ==
  /\ \E l \in RecorderIds :
       vad[l].on /\ vad[l].hasSpoken /\ vad[l].silent <= SILENCE_DURATION
  /\ Do([Begin(W, "tick") EXCEPT !.vad =
       [l \in RecorderIds |->
          IF vad[l].on /\ vad[l].hasSpoken
          THEN [vad[l] EXCEPT !.silent = Min(@ + TickMs, SILENCE_DURATION + TickMs)]
          ELSE vad[l]]])

\* An animation frame runs checkAudioLevel of loop l.
VadTick ==
  \E l \in RecorderIds, amp \in Samples :
    /\ vad[l].on
    /\ Do(checkAudioLevel(Begin(W, "vadTick"), l, amp))

RecorderStopped ==
  \E r \in RecorderIds, size \in BlobSizes :
    /\ recorders[r].state = "stopping"
    /\ size > MinBlobSize => FreeTurnIds(W) # {}
    /\ Do(onstop(Begin(W, "onstop"), r, size))

\* The turn request settles: a streamed body, or a failure (lines 712-721).
TurnResponse ==
  \E t \in TurnIds, ok \in BOOLEAN :
    /\ turns[t].pc = "request"
    /\ LET w0 == Begin(W, "turnResponse")
       IN Do(IF ok THEN [w0 EXCEPT !.turns[t].pc = "stream"]
                 ELSE turnFails(w0, t))

StreamEvent ==
  \E t \in TurnIds, ev \in StreamEvents :
    /\ turns[t].pc = "stream"
    /\ turns[t].used < MaxEvents
    /\ Do(dispatch(Begin(W, ev), t, ev))

\* The stream ends (done) or reader.read() fails (lines 728-729, 810-819).
StreamClose ==
  \E t \in TurnIds, fails \in BOOLEAN :
    /\ turns[t].pc = "stream"
    /\ Do(IF fails THEN turnFails(Begin(W, "streamClose"), t)
               ELSE turnFinally(Begin(W, "streamClose"), t))

\* The worklet plays out what it holds.
SinkDrain ==
  /\ sinkBusy
  /\ Do([Begin(W, "sinkDrain") EXCEPT !.sinkBusy = FALSE])

\* worklet.port.onmessage with type "ended" (lines 351-357).
WorkletEnded ==
  /\ workletRef /\ sinkComplete /\ ~sinkBusy
  /\ LET w0 == [Begin(W, "ended") EXCEPT !.sinkComplete = FALSE,
                                         !.isSpeaking = FALSE]
     IN Do(scheduleAutoRestart(w0, DelayPlaybackEnded))

\* ---- the avatar component (src/unnamed/part_001) -------------------------
\* isLoading, callId, isConnected, error: its state (lines 49-52; callId 0:
\* null; error: a message is set); pending: the request of
\* startCallInternal is in flight; starts: the requests made;
\* quotaExceeded: beyQuotaExceeded of the page (part_000 line 54), set by
\* the onQuotaExceeded handler (part_000 lines 1012-1020); failedIn: the
\* session during which the last request failed, 0 once Retry was pressed.
NoAvatar ==
  [isLoading |-> FALSE, callId |-> 0, isConnected |-> FALSE,
   error |-> FALSE, pending |-> FALSE, starts |-> 0,
   quotaExceeded |-> FALSE, failedIn |-> 0]

\* The component is mounted on the avatar path, with isActive the
\* isCallActive of the page's last render.  Its effect (lines 345-351) calls
\* startCall when the call is active and there is neither a callId nor a
\* request under way: startCallInternal up to its fetch (lines 112-123).
BeyAvatarStarts ==
  /\ useBey
  /\ rendered.isCallActive
  /\ bey.callId = 0 /\ ~bey.isLoading
  /\ bey.starts < MaxAvatarStarts
  /\ bey' = [bey EXCEPT !.isLoading = TRUE, !.error = FALSE,
                        !.pending = TRUE, !.starts = @ + 1]
  /\ Commit(Begin(W, "beyStart"))
  /\ UNCHANGED <<budget, consumer, extract>>

\* The response of /api/bey/call (lines 125-166): the call is created and
\* the room connects; or the quota/billing test of lines 131-134 holds and
\* onQuotaExceeded runs; or another error is shown.
BeyAvatarResponse ==
  /\ bey.pending
  /\ \E outcome \in {"created", "quota", "failed"} :
       bey' = [bey EXCEPT !.pending = FALSE,
                          !.isLoading = FALSE,
                          !.callId = IF outcome = "created" THEN 1 ELSE @,
                          !.isConnected = @ \/ outcome = "created",
                          !.error = @ \/ outcome = "failed",
                          !.quotaExceeded = @ \/ outcome = "quota",
                          !.failedIn = IF outcome = "created" THEN 0
                                       ELSE sessionId]
  /\ Commit(Begin(W, "beyResponse"))
  /\ UNCHANGED <<budget, consumer, extract>>

\* The Retry button of the error view (lines 377-386): setError(null) and
\* startCall, which goes on to its request unless one is under way or a
\* call exists (line 113).
BeyRetryClick ==
  /\ useBey
  /\ bey.error
  /\ bey.callId = 0 /\ ~bey.isLoading
  /\ bey.starts < MaxAvatarStarts
  /\ bey' = [bey EXCEPT !.isLoading = TRUE, !.error = FALSE,
                        !.pending = TRUE, !.starts = @ + 1,
                        !.failedIn = 0]
  /\ Commit(Begin(W, "beyRetry"))
  /\ UNCHANGED <<budget, consumer, extract>>

\* The effect ends the avatar call once the page's call is no longer
\* active (lines 348-349, 275-298).
BeyAvatarEnds ==
  /\ useBey
  /\ ~rendered.isCallActive
  /\ bey.callId # 0
  /\ bey' = [bey EXCEPT !.callId = 0, !.isConnected = FALSE,
                        !.isLoading = FALSE]
  /\ Commit(Begin(W, "beyEnd"))
  /\ UNCHANGED <<budget, consumer, extract>>

\* ---- the room of the avatar component and sendContext --------------------
\* The LiveKit room of the component, step by step (part_001 lines 150-172,
\* 275-296), for sendContext (lines 88-110), which the page calls through
\* the handle of lines 301-305 (sendAppointmentContext, part_000 lines
\* 183-200).
\* roomRef: roomRef.current holds a room; connected: that room is connected;
\* isConnected: the state, latest value set; handle: the isConnected that
\* the sendContext of the handle captured (useCallback with [isConnected]);
\* timers: the pending retries, each with the message and the isConnected
\* of its closure; published: publishData calls per message; calls: calls of
\* sendContext so far, which number the messages.
Contexts == 1..MaxContexts

NoContext ==
  [roomRef |-> FALSE, connected |-> FALSE, isConnected |-> FALSE,
   handle |-> FALSE, timers |-> {}, published |-> [m \in Contexts |-> 0],
   calls |-> 0]

\* sendData (lines 89-99) of a closure that captured isConnected as
\* captured, for message m: whether it publishes, and the state after it.
sendDataSends(c, captured) == c.roomRef /\ captured

sendData(c, captured, m) ==
  IF sendDataSends(c, captured)
  THEN [c EXCEPT !.published[m] = @ + 1]
  ELSE c

\* sendContext (lines 88-110) for message m.
sendContext(c, m) ==
  IF sendDataSends(c, c.handle)
  THEN sendData(c, c.handle, m)
  ELSE [c EXCEPT !.timers = @ \cup {[msg |-> m, isConnected |-> c.handle]}]

\* An action of the component: only context changes.
DoContext(c) ==
  /\ Commit([Begin(W, "context") EXCEPT !.context = c])
  /\ UNCHANGED <<budget, consumer, bey, extract>>

\* startCallInternal creates the room and goes on to connect it (lines
\* 153-159 and the connect call after the handlers).
RoomCreated ==
  /\ useBey
  /\ ~context.roomRef
  /\ DoContext([context EXCEPT !.roomRef = TRUE, !.connected = FALSE])

\* RoomEvent.Connected (lines 162-166).
RoomConnected ==
  /\ context.roomRef /\ ~context.connected
  /\ DoContext([context EXCEPT !.connected = TRUE, !.isConnected = TRUE])

\* RoomEvent.Disconnected (lines 168-172): the connection is lost.
RoomDisconnected ==
  /\ context.roomRef /\ context.connected
  /\ DoContext([context EXCEPT !.connected = FALSE, !.isConnected = FALSE])

\* endCall of the component (lines 275-296).
RoomEnded ==
  /\ context.roomRef
  /\ DoContext([context EXCEPT !.roomRef = FALSE, !.connected = FALSE,
                               !.isConnected = FALSE])

\* The component renders: sendContext is created anew with the isConnected
\* of this render and the handle is updated (lines 88, 110, 301-305).
ContextRender ==
  /\ context.handle # context.isConnected
  /\ DoContext([context EXCEPT !.handle = context.isConnected])

\* The page calls sendContext through beyAvatarRef (part_000 lines 184,
\* 199) with a new message.
SendContext ==
  /\ useBey
  /\ context.calls < MaxContexts
  /\ DoContext(sendContext([context EXCEPT !.calls = @ + 1],
                           context.calls + 1))

\* The retry of lines 104-108 runs, 2 seconds after its sendContext.
SendContextRetry ==
  \E t \in context.timers :
    DoContext(sendData([context EXCEPT !.timers = @ \ {t}],
                       t.isConnected, t.msg))

\* ---- identification of the user ------------------------------------------
\* identifiedUser, isLookingUp: state (part_000 lines 60, 62), latest value
\* set; autoDetectionTriggeredRef: the ref cell of line 64; requests: the
\* lookup requests in flight, automatic or manual; cooldowns: the pending
\* timers of line 237, named by the lookup that set them; issued: lookups
\* requested so far.  Observation: latest is the last automatic lookup, and
\* allowed is false from an automatic lookup until its own cooldown has
\* elapsed, the identified user is cleared, or a call starts.
LookupIds == 1..MaxLookups

NoLookup ==
  [identifiedUser |-> FALSE, isLookingUp |-> FALSE,
   autoDetectionTriggeredRef |-> FALSE, requests |-> {}, cooldowns |-> {},
   issued |-> 0, latest |-> 0, allowed |-> TRUE]

\* The phone number that extractPhoneNumber finds in the user's speech.
DetectedPhone == Digits(TypedPhone)

\* The guard of autoLookupUser (line 204), with the identifiedUser and
\* isLookingUp its closure captured.
autoLookupBlocked(w) ==
  \/ w.rendered.identifiedUser
  \/ w.rendered.isLookingUp
  \/ w.lookup.autoDetectionTriggeredRef

\* autoLookupUser up to its request (lines 203-216).
autoLookupUser(w) ==
  IF autoLookupBlocked(w) THEN w
  ELSE [w EXCEPT !.lookup.autoDetectionTriggeredRef = TRUE,
                 !.phoneInput = DetectedPhone,
                 !.lookup.isLookingUp = TRUE,
                 !.lookup.issued = @ + 1,
                 !.lookup.requests =
                    @ \cup {[id |-> w.lookup.issued + 1, auto |-> TRUE]},
                 !.lookup.latest = w.lookup.issued + 1,
                 !.lookup.allowed = FALSE]

\* onTranscript (lines 1021-1051) for speech of the user in which a phone
\* number is detected.
onTranscript(w) ==
  IF ~w.rendered.identifiedUser /\ ~w.lookup.autoDetectionTriggeredRef
  THEN autoLookupUser(w)
  ELSE w

\* The avatar reports speech of the user with a phone number in it.
TranscriptWithPhone ==
  /\ useBey /\ rendered.isCallActive
  /\ lookup.issued < MaxLookups
  /\ Do(onTranscript(Begin(W, "transcript")))

\* lookupUser up to its request (lines 246-262); the button is shown while
\* no user is identified and is disabled during a lookup (lines 1126, 1167).
LookupClick ==
  /\ rendered.isCallActive
  /\ ~rendered.identifiedUser /\ ~rendered.isLookingUp
  /\ Len(rendered.phoneInput) >= 10 /\ ~StartDisabled(rendered.phoneInput)
  /\ lookup.issued < MaxLookups
  /\ Do(Render([Begin(W, "lookup") EXCEPT
                  !.lookup.isLookingUp = TRUE,
                  !.lookup.issued = @ + 1,
                  !.lookup.requests =
                     @ \cup {[id |-> lookup.issued + 1, auto |-> FALSE]}]))

\* The request of a lookup settles (lines 216-242, 258-289): the user is
\* identified, or the lookup failed, and an automatic one sets its timer.
LookupResponse ==
  \E q \in lookup.requests, ok \in BOOLEAN :
    LET w0 == Begin(W, "lookupResponse")
        w1 == [w0 EXCEPT !.lookup.requests = @ \ {q}]
        w2 == IF ok THEN [w1 EXCEPT !.lookup.identifiedUser = TRUE]
              ELSE IF q.auto
                   THEN [w1 EXCEPT !.lookup.cooldowns = @ \cup {q.id}]
                   ELSE w1
    IN Do([w2 EXCEPT !.lookup.isLookingUp = FALSE])

\* The timer of lines 237-239 runs, 5 seconds after its lookup failed.
CooldownFires ==
  \E k \in lookup.cooldowns :
    Do([Begin(W, "cooldown") EXCEPT
          !.lookup.cooldowns = @ \ {k},
          !.lookup.autoDetectionTriggeredRef = FALSE,
          !.lookup.allowed = @ \/ k = lookup.latest])

\* The button that clears the identified user (lines 1193-1206).
ClearUserClick ==
  /\ rendered.isCallActive /\ rendered.identifiedUser
  /\ Do(Render([Begin(W, "clearUser") EXCEPT
                  !.lookup.identifiedUser = FALSE,
                  !.phoneInput = NoPhone,
                  !.lookup.autoDetectionTriggeredRef = FALSE,
                  !.lookup.allowed = TRUE]))

\* ---- the animated avatar component (part_003) ------------------------------
\* Its functions are plain functions of the component body: those that run
\* in one chain (the effect of lines 71-77, initializeCall, the greeting
\* timer, sendGreeting, startListening, monitorSilence, checkAudio, the
\* recorder's onstop, processUserSpeech) are all of the render in which the
\* effect ran, and read the avatarState of that render.  A chain is named
\* by the number of its activation.  The component renders a state update
\* before the next event; isMicOn and isSpeakerOn are true throughout.
\* Of a chain: pc is where it stands ("mic": getUserMedia awaited; "timer":
\* the greeting timer pending; "speaking": speakText awaited; "recording":
\* its recorder records; "stopping": stop event pending; "thinking": the
\* requests of processUserSpeech awaited; "ended"); avatarState is the one
\* its functions captured; stream is the stream of its recorder; loop: a
\* frame of checkAudio is requested; hasHeardSpeech and silenceStart (set
\* or null) are the locals of monitorSilence; minElapsed and silenceElapsed
\* say that more than MIN_RECORDING_TIME has passed since the recording
\* began, and more than SILENCE_DURATION since silenceStart; user is what
\* the user does during the recording: "quiet" (nothing said yet),
\* "speaking", "silent" (after speech, for good).
ChainIds == 1..MaxActivations

NoChain ==
  [pc |-> "none", avatarState |-> "idle", stream |-> 0, loop |-> FALSE,
   hasHeardSpeech |-> FALSE, silenceStart |-> FALSE, minElapsed |-> FALSE,
   silenceElapsed |-> FALSE, user |-> "quiet"]

\* isActive: the prop; isConnected, avatarState: state (lines 29, 33);
\* streamRef (0: null), analyserRef, mediaRecorderRef and animationFrameRef
\* (0: null, else the chain whose recorder or frame it holds): ref cells
\* (lines 35-41); activations: chains begun; replies: turns of
\* processUserSpeech that went on to the server.
NoAnim ==
  [isActive |-> FALSE, isConnected |-> FALSE, avatarState |-> "idle",
   streamRef |-> 0, analyserRef |-> FALSE, mediaRecorderRef |-> 0,
   animationFrameRef |-> 0, chains |-> [k \in ChainIds |-> NoChain],
   activations |-> 0, replies |-> 0]

\* mediaRecorderRef.current.stop() if its state is "recording" (lines
\* 196-199).
stopRecording(a) ==
  IF a.mediaRecorderRef # 0 /\ a.chains[a.mediaRecorderRef].pc = "recording"
  THEN [a EXCEPT !.chains[a.mediaRecorderRef].pc = "stopping"]
  ELSE a

\* The test that lets checkAudio go on (line 181).
checkAudioRuns(a, k) ==
  a.analyserRef /\ a.chains[k].avatarState = "listening"

\* requestAnimationFrame(checkAudio) (line 206).
requestFrame(a, k) ==
  [a EXCEPT !.chains[k].loop = TRUE, !.animationFrameRef = k]

\* checkAudio (lines 180-207) of chain k: the level is above
\* SPEECH_THRESHOLD while the user speaks and below SILENCE_THRESHOLD
\* otherwise.
checkAudio(a, k) ==
  LET c == a.chains[k]
      a0 == [a EXCEPT !.chains[k].loop = FALSE]
  IN IF ~checkAudioRuns(a, k) THEN a0
     ELSE IF c.user = "speaking"
     THEN requestFrame([a0 EXCEPT !.chains[k].hasHeardSpeech = TRUE,
                                  !.chains[k].silenceStart = FALSE,
                                  !.chains[k].silenceElapsed = FALSE], k)
     ELSE IF c.hasHeardSpeech /\ c.minElapsed
     THEN IF ~c.silenceStart
          THEN requestFrame([a0 EXCEPT !.chains[k].silenceStart = TRUE], k)
          ELSE IF c.silenceElapsed THEN stopRecording(a0)
          ELSE requestFrame(a0, k)
     ELSE requestFrame(a0, k)

\* monitorSilence (lines 167-209): the locals, and the first checkAudio.
monitorSilence(a, k) ==
  IF ~a.analyserRef THEN a
  ELSE checkAudio([a EXCEPT !.chains[k].hasHeardSpeech = FALSE,
                            !.chains[k].silenceStart = FALSE,
                            !.chains[k].silenceElapsed = FALSE,
                            !.chains[k].minElapsed = FALSE], k)

\* startListening (lines 139-165) of chain k.
animStartListening(a, k) ==
  IF a.streamRef = 0 THEN [a EXCEPT !.chains[k].pc = "ended"]
  ELSE monitorSilence([a EXCEPT !.chains[k].pc = "recording",
                                !.chains[k].stream = a.streamRef,
                                !.chains[k].user = "quiet",
                                !.chains[k].minElapsed = FALSE,
                                !.mediaRecorderRef = k], k)

\* cleanupCall (lines 104-125).  The tracks of the stream are stopped, which
\* ends the recorders that record from it; the frame that
\* animationFrameRef names is cancelled.
cleanupCall(a) ==
  LET f == a.animationFrameRef
      a1 == [a EXCEPT !.chains =
               [k \in ChainIds |->
                  IF /\ a.streamRef # 0
                     /\ @[k].pc = "recording"
                     /\ @[k].stream = a.streamRef
                  THEN [@[k] EXCEPT !.pc = "stopping"] ELSE @[k]]]
      a2 == IF f # 0 THEN [a1 EXCEPT !.chains[f].loop = FALSE] ELSE a1
  IN [a2 EXCEPT !.streamRef = 0, !.isConnected = FALSE,
                !.avatarState = "idle"]

\* An action of the component: only anim changes.
DoAnim(a) ==
  /\ Commit([Begin(W, "anim") EXCEPT !.anim = a])
  /\ UNCHANGED <<budget, consumer, bey, extract>>

\* isActive becomes true: the effect of lines 71-77 calls initializeCall
\* unless isConnected, and a chain begins with the avatarState of this
\* render (initializeCall up to its await, lines 79-82).
AnimActivate ==
  /\ ~anim.isActive
  /\ IF anim.isConnected
     THEN DoAnim([anim EXCEPT !.isActive = TRUE])
     ELSE /\ anim.activations < MaxActivations
          /\ DoAnim([anim EXCEPT
                       !.isActive = TRUE,
                       !.activations = @ + 1,
                       !.chains[anim.activations + 1] =
                          [NoChain EXCEPT !.pc = "mic",
                                          !.avatarState = anim.avatarState]])

\* isActive becomes false: the effect calls cleanupCall if isConnected.
AnimDeactivate ==
  /\ anim.isActive
  /\ DoAnim(IF anim.isConnected
            THEN cleanupCall([anim EXCEPT !.isActive = FALSE])
            ELSE [anim EXCEPT !.isActive = FALSE])

\* getUserMedia of initializeCall settles (lines 82-101).
AnimMicResult ==
  \E k \in ChainIds, granted \in BOOLEAN :
    /\ anim.chains[k].pc = "mic"
    /\ DoAnim(IF granted
              THEN [anim EXCEPT !.streamRef = k, !.analyserRef = TRUE,
                                !.isConnected = TRUE,
                                !.chains[k].pc = "timer"]
              ELSE [anim EXCEPT !.chains[k].pc = "ended"])

\* The timer of lines 96-98 runs sendGreeting up to its await (127-133).
AnimGreeting ==
  \E k \in ChainIds :
    /\ anim.chains[k].pc = "timer"
    /\ DoAnim([anim EXCEPT !.avatarState = "speaking",
                           !.chains[k].pc = "speaking"])

\* speakText resolves: sendGreeting (lines 135-136) or processUserSpeech
\* (lines 262-263) enters listening.
AnimSpoken ==
  \E k \in ChainIds :
    /\ anim.chains[k].pc = "speaking"
    /\ DoAnim(animStartListening([anim EXCEPT !.avatarState = "listening"],
                                 k))

\* The user begins to speak during a recording, and stops for good; the
\* speech lasts longer than a frame, so that a running loop hears it.
AnimUserSpeaks ==
  \E k \in ChainIds :
    /\ anim.chains[k].pc = "recording" /\ anim.chains[k].user = "quiet"
    /\ DoAnim([anim EXCEPT !.chains[k].user = "speaking"])

AnimUserFallsSilent ==
  \E k \in ChainIds :
    /\ anim.chains[k].pc = "recording" /\ anim.chains[k].user = "speaking"
    /\ anim.chains[k].loop => anim.chains[k].hasHeardSpeech
    /\ DoAnim([anim EXCEPT !.chains[k].user = "silent"])

\* Time passes: Date.now() (lines 190, 193) has moved beyond
\* MIN_RECORDING_TIME after the start of the recording, or beyond
\* SILENCE_DURATION after silenceStart.
AnimMinTimePasses ==
  \E k \in ChainIds :
    /\ anim.chains[k].pc = "recording" /\ ~anim.chains[k].minElapsed
    /\ DoAnim([anim EXCEPT !.chains[k].minElapsed = TRUE])

AnimSilenceTimePasses ==
  \E k \in ChainIds :
    /\ anim.chains[k].pc = "recording"
    /\ anim.chains[k].silenceStart /\ ~anim.chains[k].silenceElapsed
    /\ DoAnim([anim EXCEPT !.chains[k].silenceElapsed = TRUE])

\* A requested frame runs checkAudio.
AnimFrame ==
  \E k \in ChainIds :
    /\ anim.chains[k].loop
    /\ DoAnim(checkAudio(anim, k))

\* The stop event of a recorder: onstop (lines 157-162) and processUserSpeech
\* up to its first await (lines 211-228).  A recording of more than
\* MIN_RECORDING_TIME has chunks (start(100), line 164).
AnimBlobSizes == {0, 1999, 2000}

AnimRecorderStopped ==
  \E k \in ChainIds, size \in AnimBlobSizes :
    /\ anim.chains[k].pc = "stopping"
    /\ size = 0 => ~anim.chains[k].minElapsed
    /\ size >= 2000 => anim.replies < MaxReplies
    /\ DoAnim(IF size = 0 THEN [anim EXCEPT !.chains[k].pc = "ended"]
              ELSE IF size < 2000 THEN animStartListening(anim, k)
              ELSE [anim EXCEPT !.replies = @ + 1,
                                !.avatarState = "thinking",
                                !.chains[k].pc = "thinking"])

\* The requests of processUserSpeech settle (lines 229-271): a reply to
\* speak, no text transcribed, or a failure.
AnimReply ==
  \E k \in ChainIds, outcome \in {"reply", "noText", "failed"} :
    /\ anim.chains[k].pc = "thinking"
    /\ DoAnim(CASE outcome = "reply" ->
                     [anim EXCEPT !.avatarState = "speaking",
                                  !.chains[k].pc = "speaking"]
                [] outcome = "noText" -> animStartListening(anim, k)
                [] outcome = "failed" ->
                     animStartListening(
                       [anim EXCEPT !.avatarState = "listening"], k))

\* ---- signal extractors (lines 119-180) --------------------------------------
\* Text is a sequence of characters; null is the empty sequence (neither
\* function returns an empty string).
null == <<>>

Letters ==
  <<"a", "b", "c", "d", "e", "f", "g", "h", "i", "j", "k", "l", "m", "n",
    "o", "p", "q", "r", "s", "t", "u", "v", "w", "x", "y", "z">>

Capitals ==
  <<"A", "B", "C", "D", "E", "F", "G", "H", "I", "J", "K", "L", "M", "N",
    "O", "P", "Q", "R", "S", "T", "U", "V", "W", "X", "Y", "Z">>

IsLetter(c) == \E i \in 1..26 : c = Letters[i] \/ c = Capitals[i]

toLowerChar(c) ==
  IF \E i \in 1..26 : c = Capitals[i]
  THEN Letters[CHOOSE i \in 1..26 : c = Capitals[i]]
  ELSE c

toUpperChar(c) ==
  IF \E i \in 1..26 : c = Letters[i]
  THEN Capitals[CHOOSE i \in 1..26 : c = Letters[i]]
  ELSE c

toLowerCase(text) == [i \in 1..Len(text) |-> toLowerChar(text[i])]

\* \w, \s and the class [\s\-\(\)\.\,] of line 133, on the characters
\* that occur here.
IsWordChar(c) == IsLetter(c) \/ IsDigit(c) \/ c = "_"

IsSpace(c) == c = " "

IsSeparator(c) == c \in {" ", "-", "(", ")", ".", ","}

IsKept(c) == ~IsSeparator(c)

\* The entries of numberWords in their order (lines 121-125).
numberWords ==
  <<[word |-> <<"z", "e", "r", "o">>, digit |-> "0"],
    [word |-> <<"o", "n", "e">>, digit |-> "1"],
    [word |-> <<"t", "w", "o">>, digit |-> "2"],
    [word |-> <<"t", "h", "r", "e", "e">>, digit |-> "3"],
    [word |-> <<"f", "o", "u", "r">>, digit |-> "4"],
    [word |-> <<"f", "i", "v", "e">>, digit |-> "5"],
    [word |-> <<"s", "i", "x">>, digit |-> "6"],
    [word |-> <<"s", "e", "v", "e", "n">>, digit |-> "7"],
    [word |-> <<"e", "i", "g", "h", "t">>, digit |-> "8"],
    [word |-> <<"n", "i", "n", "e">>, digit |-> "9"],
    [word |-> <<"o", "h">>, digit |-> "0"],
    [word |-> <<"o">>, digit |-> "0"]>>

\* new RegExp(`\\b${word}\\b`) matches at position i of text.
WordAt(text, i, word) ==
  /\ i + Len(word) - 1 <= Len(text)
  /\ SubSeq(text, i, i + Len(word) - 1) = word
  /\ i = 1 \/ ~IsWordChar(text[i - 1])
  /\ i + Len(word) > Len(text) \/ ~IsWordChar(text[i + Len(word)])

\* text.replace(new RegExp(`\\b${word}\\b`, 'g'), digit), from position i on.
RECURSIVE replaceWord(_, _, _, _)
replaceWord(text, i, word, digit) ==
  IF i > Len(text)
  THEN <<>>
  ELSE IF WordAt(text, i, word)
  THEN <<digit>> \o replaceWord(text, i + Len(word), word, digit)
  ELSE <<text[i]>> \o replaceWord(text, i + 1, word, digit)

\* The forEach of lines 128-130, from entry k on.
RECURSIVE replaceNumberWords(_, _)
replaceNumberWords(text, k) ==
  IF k > Len(numberWords)
  THEN text
  ELSE replaceNumberWords(
         replaceWord(text, 1, numberWords[k].word, numberWords[k].digit),
         k + 1)

\* How many digits stand at position i and after it without a gap.
RECURSIVE digitsFrom(_, _)
digitsFrom(text, i) ==
  IF i > Len(text) \/ ~IsDigit(text[i]) THEN 0 ELSE 1 + digitsFrom(text, i + 1)

\* text.match(/\d{10,}/): the leftmost match, as long as it can be, looked
\* for from position i on; null when there is none.
RECURSIVE matchTenDigits(_, _)
matchTenDigits(text, i) ==
  IF i > Len(text)
  THEN null
  ELSE LET n == digitsFrom(text, i)
       IN IF n >= 10
          THEN SubSeq(text, i, i + n - 1)
          ELSE matchTenDigits(text, i + 1)

\* How many characters from position i on are digits or white space.
RECURSIVE spacedFrom(_, _)
spacedFrom(text, i) ==
  IF i > Len(text) \/ ~(IsDigit(text[i]) \/ IsSpace(text[i]))
  THEN 0
  ELSE 1 + spacedFrom(text, i + 1)

\* text.match(/(\d\s*){10,}/): the leftmost match, looked for from
\* position i on.
RECURSIVE matchSpacedDigits(_, _)
matchSpacedDigits(text, i) ==
  IF i > Len(text)
  THEN null
  ELSE LET m == IF IsDigit(text[i])
                THEN SubSeq(text, i, i + spacedFrom(text, i) - 1)
                ELSE <<>>
       IN IF Len(Digits(m)) >= 10 THEN m ELSE matchSpacedDigits(text, i + 1)

\* s.slice(-n)
lastChars(s, n) == SubSeq(s, IF Len(s) > n THEN Len(s) - n + 1 ELSE 1, Len(s))

\* The same, returning the first ten digits of the run.
extractPhoneNumberFirstTen(text) ==
  LET normalized == replaceNumberWords(toLowerCase(text), 1)
      cleanedDigits == SelectSeq(normalized, IsKept)
      phoneMatch == matchTenDigits(cleanedDigits, 1)
      spacedDigits == matchSpacedDigits(normalized, 1)
  IN IF phoneMatch # null
     THEN SubSeq(phoneMatch, 1, 10)
     ELSE IF spacedDigits # null /\ Len(Digits(spacedDigits)) >= 10
     THEN SubSeq(Digits(spacedDigits), 1, 10)
     ELSE null

\* Lines 119-152.
extractPhoneNumber(text) ==
  LET normalized == replaceNumberWords(toLowerCase(text), 1)
      cleanedDigits == SelectSeq(normalized, IsKept)
      phoneMatch == matchTenDigits(cleanedDigits, 1)
      spacedDigits == matchSpacedDigits(normalized, 1)
  IN IF phoneMatch # null
     THEN lastChars(phoneMatch, 10)
     ELSE IF spacedDigits # null /\ Len(Digits(spacedDigits)) >= 10
     THEN lastChars(Digits(spacedDigits), 10)
     ELSE null

\* The beginnings of the five patterns of lines 159-165, in lower case: what
\* stands before \s+([a-z]+).
namePatterns ==
  <<{<<"m", "y", " ", "n", "a", "m", "e", " ", "i", "s">>},
    {<<"i", "'", "m">>, <<"i", " ", "a", "m">>},
    {<<"t", "h", "i", "s", " ", "i", "s">>},
    {<<"c", "a", "l", "l", " ", "m", "e">>},
    {<<"n", "a", "m", "e", "'", "s">>, <<"n", "a", "m", "e", " ", "i", "s">>}>>

falsePositives ==
  {<<"c", "a", "l", "l", "i", "n", "g">>,
   <<"l", "o", "o", "k", "i", "n", "g">>,
   <<"t", "r", "y", "i", "n", "g">>,
   <<"h", "e", "r", "e">>,
   <<"t", "h", "e", "r", "e">>,
   <<"a", "s", "k", "i", "n", "g">>,
   <<"b", "o", "o", "k", "i", "n", "g">>}

\* How many characters from position i on are white space / are letters.
RECURSIVE spacesFrom(_, _)
spacesFrom(text, i) ==
  IF i > Len(text) \/ ~IsSpace(text[i]) THEN 0 ELSE 1 + spacesFrom(text, i + 1)

RECURSIVE lettersFrom(_, _)
lettersFrom(text, i) ==
  IF i > Len(text) \/ ~IsLetter(text[i]) THEN 0 ELSE 1 + lettersFrom(text, i + 1)

\* The capture of head\s+([a-z]+) with the flag i, matched at position i of
\* text; null when the pattern does not match there.
captureAt(text, i, head) ==
  IF /\ i + Len(head) - 1 <= Len(text)
     /\ toLowerCase(SubSeq(text, i, i + Len(head) - 1)) = head
  THEN LET j == i + Len(head)
           k == j + spacesFrom(text, j)
       IN IF k > j /\ lettersFrom(text, k) > 0
          THEN SubSeq(text, k, k + lettersFrom(text, k) - 1)
          ELSE null
  ELSE null

\* text.match(pattern)[1] for the pattern with the beginnings heads: the
\* capture of the leftmost match, looked for from position i on.
RECURSIVE matchName(_, _, _)
matchName(text, i, heads) ==
  IF i > Len(text)
  THEN null
  ELSE IF \E h \in heads : captureAt(text, i, h) # null
  THEN captureAt(text, i, CHOOSE h \in heads : captureAt(text, i, h) # null)
  ELSE matchName(text, i + 1, heads)

\* name.charAt(0).toUpperCase() + name.slice(1).toLowerCase()
capitalize(name) ==
  <<toUpperChar(name[1])>> \o toLowerCase(SubSeq(name, 2, Len(name)))

\* The for loop of lines 167-177 over patterns, from pattern p on.
RECURSIVE firstName(_, _, _)
firstName(text, patterns, p) ==
  IF p > Len(patterns)
  THEN null
  ELSE LET name == matchName(text, 1, patterns[p])
       IN IF name # null /\ toLowerCase(name) \notin falsePositives
          THEN capitalize(name)
          ELSE firstName(text, patterns, p + 1)

\* The same without the list of false positives.
extractNameKeepsFalsePositives(text) ==
  LET first == {p \in 1..Len(namePatterns) :
                  matchName(text, 1, namePatterns[p]) # null}
  IN IF first = {}
     THEN null
     ELSE capitalize(matchName(text, 1,
            namePatterns[CHOOSE p \in first : \A q \in first : p <= q]))

\* Lines 155-180.
extractName(text) == firstName(text, namePatterns, 1)

\* What the user may say in one message, and the text the callback builds of
\* the recent messages: recentUserSpeechRef.current.join(" ") (line 1039).
Says ==
  [ \* "my number is"
   myNumberIs |->
       <<"m", "y", " ", "n", "u", "m", "b", "e", "r", " ", "i", "s">>,
   \* "nine six eight, six four five,"
   nineSixEight |->
       <<"n", "i", "n", "e", " ", "s", "i", "x", " ", "e", "i", "g",
       "h", "t", ",", " ", "s", "i", "x", " ", "f", "o", "u", "r",
       " ", "f", "i", "v", "e", ",">>,
   \* "six zero nine zero"
   sixZeroNineZero |->
       <<"s", "i", "x", " ", "z", "e", "r", "o", " ", "n", "i", "n",
       "e", " ", "z", "e", "r", "o">>,
   \* "call"
   call |->
       <<"c", "a", "l", "l">>,
   \* "555-123-4567"
   dashedNumber |->
       <<"5", "5", "5", "-", "1", "2", "3", "-", "4", "5", "6", "7">>,
   \* "please"
   please |->
       <<"p", "l", "e", "a", "s", "e">>,
   \* "1"
   one |->
       <<"1">>,
   \* "968 645 6090"
   spacedNumber |->
       <<"9", "6", "8", " ", "6", "4", "5", " ", "6", "0", "9", "0">>,
   \* "Hi, this is John,"
   thisIsJohn |->
       <<"H", "i", ",", " ", "t", "h", "i", "s", " ", "i", "s", " ",
       "J", "o", "h", "n", ",">>,
   \* "I need an appointment"
   needAppointment |->
       <<"I", " ", "n", "e", "e", "d", " ", "a", "n", " ", "a", "p",
       "p", "o", "i", "n", "t", "m", "e", "n", "t">>,
   \* "I'm calling about a refund"
   callingAboutRefund |->
       <<"I", "'", "m", " ", "c", "a", "l", "l", "i", "n", "g", " ",
       "a", "b", "o", "u", "t", " ", "a", " ", "r", "e", "f", "u",
       "n", "d">>,
   \* "the name is Bob"
   theNameIsBob |->
       <<"t", "h", "e", " ", "n", "a", "m", "e", " ", "i", "s", " ",
       "B", "o", "b">>,
   \* "my name is alice"
   myNameIsAlice |->
       <<"m", "y", " ", "n", "a", "m", "e", " ", "i", "s", " ", "a",
       "l", "i", "c", "e">>]

Utterances == {Says[k] : k \in DOMAIN Says}

RECURSIVE joinSpeech(_)
joinSpeech(ms) ==
  IF Len(ms) = 1 THEN ms[1] ELSE ms[1] \o <<" ">> \o joinSpeech(Tail(ms))

Texts ==
  UNION {{joinSpeech(ms) : ms \in [1..n -> Utterances]} : n \in 1..MaxUtterances}

\* The text heard and what the two extractors made of it.
NoExtract == [text |-> <<>>, applied |-> FALSE, phone |-> null, name |-> null]

\* The callback of lines 1029-1041 applies both extractors to the text.
Extract ==
  /\ ~extract.applied
  /\ extract' = [extract EXCEPT !.applied = TRUE,
                                !.phone = extractPhoneNumber(extract.text),
                                !.name = extractName(extract.text)]
  /\ Commit(Begin(W, "transcript"))
  /\ UNCHANGED <<budget, consumer, bey>>

\* The page after construction, the phone input and the text heard apart.
Start ==
  /\ useBey \in BOOLEAN
  /\ isCallActive = FALSE /\ isListening = FALSE /\ isSpeaking = FALSE
  /\ isProcessing = FALSE /\ isMuted = FALSE /\ sessionId = 0
  /\ callSummary = FALSE
  /\ rendered = [isCallActive |-> FALSE, isListening |-> FALSE,
                 isSpeaking |-> FALSE, isProcessing |-> FALSE,
                 isMuted |-> FALSE, sessionId |-> 0,
                 callSummary |-> FALSE, phoneInput |-> phoneInput,
                 identifiedUser |-> FALSE, isLookingUp |-> FALSE]
  /\ isRecordingRef = FALSE /\ isMicPausedRef = FALSE
  /\ isCallActiveRef = FALSE /\ isProcessingRef = FALSE
  /\ isSpeakingRef = FALSE
  /\ autoRestartTimeoutRef = 0 /\ silenceTimeoutRef = 0
  /\ mediaRecorderRef = 0
  /\ streamRef = FALSE /\ analyserRef = FALSE /\ workletRef = FALSE
  /\ restartTimers = {} /\ safetyTimers = {}
  /\ recorders = [r \in RecorderIds |-> NoRecorder]
  /\ vad = [r \in RecorderIds |-> NoLoop]
  /\ micRequests = 0 /\ sinkBusy = FALSE /\ sinkComplete = FALSE
  /\ startCalls = [mic |-> 0, fetch |-> 0, open |-> 0, micPhones |-> <<>>]
  /\ turns = [t \in TurnIds |-> NoTurn]
  /\ endUser = 0 /\ sessionsCreated = 0 /\ clicks = 0
  /\ last = NoStep
  /\ anim = NoAnim
  /\ lookup = NoLookup
  /\ context = NoContext
  /\ consumer = NoStream
  /\ bey = NoAvatar

\* The user has typed a phone number into the start page.
Init ==
  /\ phoneInput = TypedPhone /\ extract = NoExtract /\ Start
  /\ budget = [work |-> MaxWork, calls |-> MaxCalls]

Next ==
  \/ StartCallClick
  \/ StartCallMic
  \/ StartCallSession
  \/ ToggleMicClick
  \/ ToggleMuteClick
  \/ EndCallClick
  \/ EndCallResponse
  \/ MicPermissionResult
  \/ DoRender
  \/ RestartTimerFires
  \/ \E r \in RecorderIds : SafetyTimerFires(r)
  \/ Tick
  \/ VadTick
  \/ RecorderStopped
  \/ TurnResponse
  \/ StreamEvent
  \/ StreamClose
  \/ SinkDrain
  \/ WorkletEnded

Spec == Init /\ [][Next]_vars

\* The same program within the smaller budget MaxLiveWork, and timers fire:
\* a pending safety timer (setTimeout, line 485) runs its callback at some
\* point.
LiveInit ==
  /\ phoneInput = TypedPhone /\ extract = NoExtract /\ Start
  /\ budget = [work |-> MaxLiveWork, calls |-> MaxCalls]

LiveSpec ==
  LiveInit /\ [][Next]_vars /\ \A r \in RecorderIds : WF_vars(SafetyTimerFires(r))

\* A call of the local path in the middle of its first turn: startCall has
\* acquired the microphone and created session 1, the first restart opened
\* recording 1, the safety timer closed it, its clip was sent and the
\* turn is at pc: its request is sent ("request") or its response has begun
\* to stream ("stream").  Nothing was pressed.
MidTurnAt(pc) ==
  /\ useBey = FALSE
  /\ isCallActive = TRUE /\ isListening = FALSE /\ isSpeaking = FALSE
  /\ isProcessing = TRUE /\ isMuted = FALSE /\ sessionId = 1
  /\ callSummary = FALSE /\ phoneInput = TypedPhone
  /\ extract = NoExtract
  /\ rendered = [isCallActive |-> TRUE, isListening |-> FALSE,
                 isSpeaking |-> FALSE, isProcessing |-> TRUE,
                 isMuted |-> FALSE, sessionId |-> 1,
                 callSummary |-> FALSE, phoneInput |-> TypedPhone,
                 identifiedUser |-> FALSE, isLookingUp |-> FALSE]
  /\ isRecordingRef = FALSE /\ isMicPausedRef = FALSE
  /\ isCallActiveRef = TRUE /\ isProcessingRef = TRUE
  /\ isSpeakingRef = FALSE
  /\ autoRestartTimeoutRef = 0 /\ silenceTimeoutRef = 1
  /\ mediaRecorderRef = 1
  /\ streamRef = TRUE /\ analyserRef = TRUE /\ workletRef = TRUE
  /\ restartTimers = {} /\ safetyTimers = {}
  /\ recorders = [r \in RecorderIds |->
                    IF r = 1 THEN [NoRecorder EXCEPT !.state = "inactive"]
                    ELSE NoRecorder]
  /\ vad = [r \in RecorderIds |-> NoLoop]
  /\ micRequests = 0 /\ sinkBusy = FALSE /\ sinkComplete = FALSE
  /\ startCalls = [mic |-> 0, fetch |-> 0, open |-> 1, micPhones |-> <<>>]
  /\ turns = [t \in TurnIds |->
                IF t = 1 THEN [NoTurn EXCEPT !.pc = pc, !.sessionId = 1]
                ELSE NoTurn]
  /\ endUser = 0 /\ sessionsCreated = 1 /\ clicks = 0
  /\ last = NoStep
  /\ anim = NoAnim
  /\ lookup = NoLookup
  /\ context = NoContext

MidTurn == MidTurnAt("stream")

\* The program from its construction within the budget MaxLiveWork, and from
\* the middle of a first turn with room for two stream events and one more
\* recording.  Timers fire and React renders: a pending auto-restart timer
\* (setTimeout, line 102) runs its callback and a pending state update is
\* rendered at some point.
ResumeInit ==
  \/ LiveInit
  \/ /\ MidTurn
     /\ budget = [work |-> MaxResumeWork, calls |-> MaxCalls]
     /\ consumer = NoStream
     /\ bey = NoAvatar

ResumeSpec ==
  ResumeInit /\ [][Next]_vars /\ WF_vars(RestartTimerFires) /\ WF_vars(DoRender)

\* The same, and the worklet plays out what it holds and reports "ended"
\* once it was told the stream is complete.
PlaybackSpec ==
  /\ ResumeInit /\ [][Next]_vars
  /\ WF_vars(RestartTimerFires) /\ WF_vars(DoRender)
  /\ WF_vars(SinkDrain) /\ WF_vars(WorkletEnded)

\* ---- one turn's response, read chunk by chunk ---------------------------
\* The lines a response is made of here: an event of each kind the claims
\* speak about, a payload cut short, a line without the prefix and an empty
\* line.
StreamPayloads ==
  {<<"{", "t", "}">>, <<"{", "s", "1", "}">>, <<"{", "e", "1", "}">>,
   <<"{", "e", "2", "}">>, <<"{", "d", "}">>, <<"{", "d", "!", "}">>,
   <<"{", "r", "}">>, <<"{", "t">>}

StreamLines ==
  {Prefix \o p : p \in StreamPayloads} \cup {<<"{", "t", "}">>, <<>>}

\* The bytes of a response: its lines, each ended by a newline, the last
\* one possibly not (open).
RECURSIVE join(_)
join(ls) ==
  IF ls = <<>> THEN <<>> ELSE Head(ls) \o <<Newline>> \o join(Tail(ls))

Body(ls, open) ==
  IF open
  THEN join(SubSeq(ls, 1, Len(ls) - 1)) \o ls[Len(ls)]
  ELSE join(ls)

\* reader.read() returns the next k bytes (lines 728-733).
ReadChunk ==
  /\ turns[ConsumerTurn].pc = "stream"
  /\ consumer.pending = <<>>
  /\ \E k \in 1..(Len(consumer.body) - consumer.read) :
       /\ consumer' = readChunk(consumer, k)
       /\ Commit(Begin(W, "chunk"))
       /\ UNCHANGED <<budget, bey, extract>>

\* One pass of the for loop (lines 735-808).
DispatchLine ==
  /\ turns[ConsumerTurn].pc = "stream"
  /\ consumer.pending # <<>>
  /\ LET line == Head(consumer.pending)
         st == dispatchLine([w |-> Begin(W, OpOf(line)),
                             c |-> [consumer EXCEPT !.pending = Tail(@)]],
                            line)
     IN \E v \in {st} :
          Commit(v.w) /\ consumer' = v.c /\ UNCHANGED <<budget, bey, extract>>

\* await endCall() of the done case returns (line 793).
AwaitedEndCallReturns ==
  /\ turns[ConsumerTurn].pc = "awaitEnd"
  /\ \E ok \in BOOLEAN :
       /\ Commit(endCallResult([Begin(W, "endCallResponse")
                                  EXCEPT !.turns[ConsumerTurn].pc = "stream"],
                               ok))
       /\ UNCHANGED <<budget, consumer, bey, extract>>

\* reader.read() reports the end of the body (line 729), then finally.
ReadDone ==
  /\ turns[ConsumerTurn].pc = "stream"
  /\ consumer.pending = <<>>
  /\ consumer.read = Len(consumer.body)
  /\ Commit(turnFinally(Begin(W, "streamClose"), ConsumerTurn))
  /\ UNCHANGED <<budget, consumer, bey, extract>>

\* reader.read() rejects: the catch of lines 810-816 shows the toast, then
\* finally.
ReadFails ==
  /\ turns[ConsumerTurn].pc = "stream"
  /\ consumer.pending = <<>>
  /\ Commit(turnFails(Begin(W, "streamClose"), ConsumerTurn))
  /\ consumer' = [consumer EXCEPT !.toasts = @ + 1]
  /\ UNCHANGED <<budget, bey, extract>>

ConsumerInit ==
  /\ MidTurn
  /\ budget = [work |-> MaxResumeWork, calls |-> MaxCalls]
  /\ bey = NoAvatar
  /\ \E n \in 1..MaxLines :
       \E ls \in [1..n -> StreamLines], open \in BOOLEAN :
         consumer = [FirstStream EXCEPT !.body = Body(ls, open)]

ConsumerNext ==
  \/ ReadChunk
  \/ DispatchLine
  \/ AwaitedEndCallReturns
  \/ ReadDone
  \/ ReadFails

ConsumerSpec == ConsumerInit /\ [][ConsumerNext]_vars

\* ---- one turn from its request to its end --------------------------------
\* The request of the turn settles (lines 712-721): with a body to read, or
\* not OK, or without a body, or fetch rejects; the three throw into the
\* catch of lines 810-816.
ConsumerResponse ==
  /\ turns[ConsumerTurn].pc = "request"
  /\ \E outcome \in {"ok", "notOk", "noBody", "rejected"} :
       IF outcome = "ok"
       THEN /\ Commit([Begin(W, "turnResponse")
                         EXCEPT !.turns[ConsumerTurn].pc = "stream"])
            /\ UNCHANGED <<budget, consumer, bey, extract>>
       ELSE /\ Commit(turnFails(Begin(W, "turnResponse"), ConsumerTurn))
            /\ consumer' = [consumer EXCEPT !.toasts = @ + 1]
            /\ UNCHANGED <<budget, bey, extract>>

\* The first turn with its request sent, and the response it may get.
TurnInit ==
  /\ MidTurnAt("request")
  /\ budget = [work |-> MaxResumeWork, calls |-> MaxCalls]
  /\ bey = NoAvatar
  /\ \E n \in 1..MaxLines :
       \E ls \in [1..n -> StreamLines], open \in BOOLEAN :
         consumer = [FirstStream EXCEPT !.body = Body(ls, open)]

TurnNext ==
  \/ ConsumerResponse
  \/ ConsumerNext

TurnSpec == TurnInit /\ [][TurnNext]_vars

\* ---- starting calls, with the avatar component --------------------------
\* The page and its avatar component, within the budget MaxCallWork and
\* with MaxCallStarts calls of startCall.
CallInit ==
  /\ phoneInput = TypedPhone /\ extract = NoExtract /\ Start
  /\ budget = [work |-> MaxCallWork, calls |-> MaxCallStarts]

CallNext ==
  \/ Next
  \/ BeyAvatarStarts
  \/ BeyAvatarResponse
  \/ BeyRetryClick
  \/ BeyAvatarEnds

CallSpec == CallInit /\ [][CallNext]_vars

\* ---- identification: the phone input and the summary ---------------------
\* The page from its construction, the phone input empty, within the budget
\* MaxIdentWork and with MaxCallStarts calls of startCall: the user edits
\* the phone input, and starts calls from the start page and from the
\* summary of an ended call.
IdentInit ==
  /\ phoneInput = NoPhone /\ extract = NoExtract /\ Start
  /\ budget = [work |-> MaxIdentWork, calls |-> MaxCallStarts]

IdentNext ==
  \/ Next
  \/ TypePhone
  \/ NewCallClick
  \/ CloseSummaryClick

IdentSpec == IdentInit /\ [][IdentNext]_vars

\* ---- a turn that outlives its call ---------------------------------------
\* The call of MidTurnAt, the request of its turn sent, within the budget
\* MaxLateWork and with a second call of startCall: the call may be ended
\* and a new one started while the turn of the first still awaits or reads
\* its response.
LateInit ==
  /\ MidTurnAt("request")
  /\ budget = [work |-> MaxLateWork, calls |-> MaxCallStarts]
  /\ consumer = NoStream
  /\ bey = NoAvatar

LateSpec == LateInit /\ [][IdentNext]_vars

\* ---- context messages for the avatar -------------------------------------
\* The avatar component mounted, its room created, connected, disconnected
\* and ended in any order while the page calls sendContext up to
\* MaxContexts times.
ContextInit ==
  /\ phoneInput = NoPhone /\ extract = NoExtract /\ Start
  /\ budget = [work |-> 0, calls |-> 0]

ContextNext ==
  \/ RoomCreated
  \/ RoomConnected
  \/ RoomDisconnected
  \/ RoomEnded
  \/ ContextRender
  \/ SendContext
  \/ SendContextRetry

ContextSpec == ContextInit /\ [][ContextNext]_vars

\* ---- looking the user up --------------------------------------------------
\* The page on the avatar path, within the budget MaxLookupWork and with
\* MaxCallStarts calls of startCall and MaxLookups lookups: calls are
\* started and ended, the avatar reports speech with a phone number, the
\* lookups succeed or fail, and the user is cleared.
LookupInit ==
  /\ phoneInput = TypedPhone /\ extract = NoExtract /\ Start
  /\ useBey
  /\ budget = [work |-> MaxLookupWork, calls |-> MaxCallStarts]

LookupNext ==
  \/ StartCallClick
  \/ StartCallSession
  \/ EndCallClick
  \/ EndUserResponse
  \/ NewCallClick
  \/ DoRender
  \/ TranscriptWithPhone
  \/ LookupClick
  \/ LookupResponse
  \/ CooldownFires
  \/ ClearUserClick

LookupSpec == LookupInit /\ [][LookupNext]_vars

\* ---- the animated avatar ---------------------------------------------------
\* The component from its mount, activated up to MaxActivations times, with
\* MaxReplies turns that reach the server.  Frames run, time passes and stop
\* events are delivered: requestAnimationFrame, the clock and the recorder
\* do not wait for ever.
AnimInit ==
  /\ phoneInput = NoPhone /\ extract = NoExtract /\ Start
  /\ budget = [work |-> 0, calls |-> 0]

AnimNext ==
  \/ AnimActivate
  \/ AnimDeactivate
  \/ AnimMicResult
  \/ AnimGreeting
  \/ AnimSpoken
  \/ AnimUserSpeaks
  \/ AnimUserFallsSilent
  \/ AnimMinTimePasses
  \/ AnimSilenceTimePasses
  \/ AnimFrame
  \/ AnimRecorderStopped
  \/ AnimReply

AnimSpec ==
  /\ AnimInit /\ [][AnimNext]_vars
  /\ WF_vars(AnimFrame)
  /\ WF_vars(AnimMinTimePasses)
  /\ WF_vars(AnimSilenceTimePasses)
  /\ WF_vars(AnimRecorderStopped)

\* ---- the mic button on the path the page starts on -----------------------
\* useState(true) of useBey (line 51): the page starts on the avatar path,
\* where startCall acquires no stream and the mic button is what starts a
\* recording.  That path within the budget MaxPauseWork (three presses and
\* two recordings), and both paths within MaxLiveWork.
PauseInit ==
  \/ LiveInit
  \/ /\ phoneInput = TypedPhone /\ extract = NoExtract /\ Start
     /\ useBey
     /\ budget = [work |-> MaxPauseWork, calls |-> MaxCalls]

PauseSpec == PauseInit /\ [][Next]_vars

\* ---- what the user said: phone number and name ---------------------------
\* The page after construction, a call apart, and the text of one to
\* MaxUtterances messages of the user: the callback applies the extractors.
ExtractInit ==
  /\ phoneInput = TypedPhone
  /\ \E text \in Texts : extract = [NoExtract EXCEPT !.text = text]
  /\ Start
  /\ budget = [work |-> 0, calls |-> 0]

ExtractNext == Extract

ExtractSpec == ExtractInit /\ [][ExtractNext]_vars


\* ---- properties ---------------------------------------------------------
OpenSessions == {r \in RecorderIds : recorders[r].state = "recording"}

RunningTurns == {t \in TurnIds : turns[t].pc \in Running}

\* C1: at every moment at most one recorder is in the recording state,
\* whatever the interleaving of starts and stops.
AtMostOneRecordingSession == Cardinality(OpenSessions) <= 1

\* C2: no recorder is in the recording state while the speaking flag is set.
CaptureExcludesPlayback == ~(OpenSessions # {} /\ isSpeaking)

\* C3, as the claim states it: a restart scheduled while a forbidding
\* condition held opens no recording when it fires.
BlockedRestartNeverStarts ==
  ~(last.op = "restartTimer" /\ last.blocked /\ last.started # 0)

\* C3: a restart scheduled while a forbidding condition held opens a
\* recording (or asks for the microphone) when it fires only if by then the
\* mirrors the callback reads show the call active, no recording, no pause,
\* no processing and no speaking.
BlockedRestartStartsOnlyWhenCleared ==
  [][(/\ last'.op = "restartTimer"
      /\ last'.blocked
      /\ last'.started # 0 \/ last'.requested)
       => /\ isCallActiveRef
          /\ ~isRecordingRef
          /\ ~isMicPausedRef
          /\ ~isProcessingRef
          /\ ~isSpeakingRef]_vars

\* C3 witness: a restart scheduled while blocked fires while its guard
\* still fails and is dropped.
BlockedRestartDropped ==
  last.op = "restartTimer" /\ last.blocked /\ ~last.guard /\ last.started = 0

\* C4: a restart timer that fires opens a recording only if at that moment
\* the call is active, no recording is open, the mic is not paused, no turn
\* is processing and nothing is playing; and the firing adds no timer.
RestartRevalidatesAtFiring ==
  [][last'.op = "restartTimer" =>
       /\ restartTimers' \subseteq restartTimers
       /\ last'.started # 0 =>
            /\ isCallActive
            /\ OpenSessions = {}
            /\ ~isMicPausedRef
            /\ ~isProcessing
            /\ ~isSpeaking]_vars

\* C5: at most one auto-restart timer is pending.
AtMostOnePendingRestart == Cardinality(restartTimers) <= 1

\* C5 witness: a restart was scheduled over a pending one, which it replaced.
RestartReplacedPending == last.replaced /\ Cardinality(restartTimers) = 1

EndedCallAudioIgnored ==
  ~(last.op = "audio" /\ last.outlived /\ last.played)

\* C8: voice detection closes a recording only if a sample above the
\* threshold was read while that recording was open.
VadStopsOnlyAfterSpeech ==
  \A r \in RecorderIds :
    (recorders[r].state = "stopping" /\ recorders[r].by = "vad")
      => recorders[r].loud

\* C9: every recording that is opened is closed at some point, by its
\* safety timer if by nothing else.
EveryRecordingEventuallyClosed ==
  \A r \in RecorderIds :
    (recorders[r].state = "recording") ~> (recorders[r].state # "recording")

\* C9 witness: a recording during which no speech was heard was closed by
\* its safety timer.
ClosedBySafetyTimer ==
  \E r \in RecorderIds :
    /\ recorders[r].state = "stopping"
    /\ recorders[r].by = "safety"
    /\ ~recorders[r].loud

\* C10: a step that closes a recording leaves the recording flag false and
\* no safety-cutoff timer of that session pending.
StopClearsFlagAndSafetyTimer ==
  [][\A r \in RecorderIds :
       (recorders[r].state = "recording" /\ recorders'[r].state # "recording")
         => (~isRecordingRef' /\ r \notin safetyTimers')]_vars

\* C11: a stop event whose clip is not larger than the minimum size sends no
\* turn and schedules an auto-restart; a stop event with a larger clip calls
\* sendVoiceMessage exactly once, which starts exactly one turn request, and
\* schedules nothing.
SmallClipDiscardedLargeClipSentOnce ==
  [][last'.op = "onstop" =>
       IF last'.size <= MinBlobSize
       THEN /\ turns' = turns
            /\ last'.handed = 0
            /\ last'.scheduled
            /\ \E x \in restartTimers' : x.id = autoRestartTimeoutRef'
       ELSE /\ last'.handed = 1
            /\ Cardinality({t \in TurnIds : turns'[t] # turns[t]}) = 1
            /\ \A t \in TurnIds :
                 turns'[t] # turns[t] =>
                   turns[t].pc = "none" /\ turns'[t].pc = "request"
            /\ ~last'.scheduled
            /\ restartTimers' = restartTimers]_vars

\* C11 witness: a stop event built a clip of exactly the minimum size, and
\* the clip was discarded and a restart scheduled.
SmallClipDiscarded ==
  /\ last.op = "onstop"
  /\ last.size = MinBlobSize
  /\ last.handed = 0
  /\ last.scheduled

\* The run has no room for one more recording.
NoRoom == ~CanStart(W) \/ Work(W) + 2 > budget.work

\* What ends the wait for a restart other than the restart: the call is no
\* longer active, the mic is paused, a turn is processing, audio plays again,
\* or the run has no room left.
RestartCalledOff ==
  ~isCallActive \/ isMicPausedRef \/ isProcessing \/ isSpeaking \/ NoRoom

\* C12: on the local path the step that handles the sink's "ended" leaves
\* the speaking flag false, and when at that step the call is active, the
\* mic is not paused and no turn is processing, a step that opens a
\* recording follows, unless the call ends, the mic is paused, a turn
\* begins or audio plays again first.
PlaybackEndLeadsToListening ==
  /\ [](last.op = "ended" => ~isSpeaking)
  /\ (/\ last.op = "ended" /\ ~useBey /\ isCallActive
      /\ ~isMicPausedRef /\ ~isProcessing)
       ~> (last.started # 0 \/ RestartCalledOff)

\* The same for a call on which endCall has not run (isCallActiveRef is set
\* and stays set).
PlaybackEndLeadsToListeningBeforeEndCall ==
  (/\ last.op = "ended" /\ ~useBey /\ isCallActive /\ isCallActiveRef
   /\ ~isMicPausedRef /\ ~isProcessing)
    ~> (last.started # 0 \/ ~isCallActiveRef \/ RestartCalledOff)

\* ---- properties of the response stream ----------------------------------
\* The call state without the observation record.
CallState == [W EXCEPT !.last = NoStep]

\* The line passes the test of the prefix and its payload parses.
WellFormed(line) ==
  startsWith(line, Prefix) /\ JSONparse(slice(line, 6)) # SyntaxError

\* The events of the well-formed lines among ls, in their order.
RECURSIVE EventsIn(_)
EventsIn(ls) ==
  IF ls = <<>>
  THEN <<>>
  ELSE (IF WellFormed(Head(ls))
        THEN <<JSONparse(slice(Head(ls), 6))>>
        ELSE <<>>) \o EventsIn(Tail(ls))

\* The lines of text that a newline ends.
CompleteLines(text) ==
  LET pieces == split(text) IN SubSeq(pieces, 1, Len(pieces) - 1)

\* The step dispatches an event to the switch.
DispatchStep == Len(consumer'.dispatched) = Len(consumer.dispatched) + 1

LastDispatched == consumer.dispatched[Len(consumer.dispatched)]

\* C13: no event is dispatched after an error event, and a turn that is over
\* after an error event has shown an error toast.
ErrorEventAbortsTurn ==
  \A i \in DOMAIN consumer.dispatched :
    consumer.dispatched[i].type = "error"
      => /\ i = Len(consumer.dispatched)
         /\ turns[ConsumerTurn].pc = "over" => consumer.toasts > 0

\* C14: the pass of the loop over a line without the prefix or with a
\* payload that does not parse changes nothing of the call state and nothing
\* of the consumer but the line's removal from the lines still to come: the
\* loop goes on with the next line, the buffer is kept.
MalformedLineSkipped ==
  [][(/\ turns[ConsumerTurn].pc = "stream"
      /\ consumer.pending # <<>>
      /\ ~WellFormed(Head(consumer.pending)))
       => /\ consumer' = [consumer EXCEPT !.pending = Tail(@)]
          /\ CallState' = CallState]_vars

\* C14 witness: the first line of the response carried a payload that does
\* not parse, and the event of the line after it was dispatched.
DispatchedAfterBadPayload ==
  /\ Len(split(consumer.body)) >= 3
  /\ startsWith(split(consumer.body)[1], Prefix)
  /\ ~WellFormed(split(consumer.body)[1])
  /\ Len(consumer.dispatched) = 1

\* C15: at every moment the events dispatched so far, followed by those of
\* the lines of the current chunk still to come, are the events of the
\* well-formed newline-terminated lines among the bytes received, in their
\* order and once each, however the bytes were cut into chunks; when the
\* body has ended they are those of the whole body.
DispatchedAreTheWellFormedLines ==
  /\ consumer.dispatched \o EventsIn(consumer.pending)
       = EventsIn(CompleteLines(SubSeq(consumer.body, 1, consumer.read)))
  /\ (turns[ConsumerTurn].pc = "over" /\ consumer.toasts = 0)
       => consumer.dispatched = EventsIn(CompleteLines(consumer.body))

\* C15 witness: a response of two events was read to its end in several
\* chunks, one of which ended inside a line.
TwoEventsAcrossChunks ==
  /\ turns[ConsumerTurn].pc = "over"
  /\ consumer.toasts = 0
  /\ consumer.chunks >= 2
  /\ consumer.carried
  /\ Len(consumer.dispatched) = 2

\* C16: the step that dispatches a done event tells the worklet the stream
\* is complete, appends the accumulated transcript as one assistant message
\* exactly when it is not empty, empties the preview, and then either runs
\* endCall up to its request and schedules nothing (endCall flag set) or
\* schedules an auto-restart and runs no endCall (flag absent).
DoneFlushesThenEndsOrRestarts ==
  [][(DispatchStep /\ LastDispatched'.type = "done") =>
       /\ sinkComplete' = (sinkComplete \/ workletRef)
       /\ consumer'.messages =
            IF consumer.assistantTranscript # <<>>
            THEN Append(consumer.messages,
                        [role |-> "assistant",
                         content |-> consumer.assistantTranscript])
            ELSE consumer.messages
       /\ consumer'.currentTranscript = <<>>
       /\ IF LastDispatched'.endCall
          THEN /\ turns'[ConsumerTurn].pc = "awaitEnd"
               /\ ~isCallActiveRef'
               /\ isProcessing'
               /\ ~last'.scheduled
               /\ restartTimers' = {}
          ELSE /\ last'.scheduled
               /\ \E x \in restartTimers' : x.id = autoRestartTimeoutRef'
               /\ turns'[ConsumerTurn].pc = "stream"
               /\ isCallActiveRef' = isCallActiveRef
               /\ streamRef' = streamRef]_vars

\* C16 witness: a done event without the flag came after a transcript
\* event: the transcript became the one finished message after the welcome
\* message, the preview is empty and a restart is scheduled.
DoneFlushedAndRestartScheduled ==
  /\ last.op = "done"
  /\ consumer.messages = <<Welcome, [role |-> "assistant", content |-> <<"h">>]>>
  /\ consumer.currentTranscript = <<>>
  /\ last.scheduled

\* C17: the step that dispatches a tool_call_end event keeps the number of
\* records and every record whose id is not the event's; when no record has
\* the event's id the list is unchanged.
ToolCallEndOnlyUpdatesMatching ==
  [][(DispatchStep /\ LastDispatched'.type = "tool_call_end") =>
       /\ Len(consumer'.toolCalls) = Len(consumer.toolCalls)
       /\ \A i \in DOMAIN consumer.toolCalls :
            consumer.toolCalls[i].id # LastDispatched'.id
              => consumer'.toolCalls[i] = consumer.toolCalls[i]
       /\ (\A i \in DOMAIN consumer.toolCalls :
             consumer.toolCalls[i].id # LastDispatched'.id)
            => consumer'.toolCalls = consumer.toolCalls]_vars

\* C17 witness: after the start of tool call 1, an end event for id 2 was
\* dispatched and the one record is still the running call 1.
UnmatchedToolCallEndIgnored ==
  /\ Len(consumer.dispatched) = 2
  /\ LastDispatched.type = "tool_call_end"
  /\ LastDispatched.id = 2
  /\ consumer.toolCalls = <<[id |-> 1, status |-> "running", result |-> FALSE]>>

\* ---- properties of the avatar path --------------------------------------
\* C18: while the avatar transport is the active path no recorder has been
\* created, no turn has been sent and no audio frame goes to the worklet.
AvatarPathKeepsLocalPipelineDormant ==
  useBey =>
    /\ \A r \in RecorderIds : recorders[r].state = "none"
    /\ \A t \in TurnIds : turns[t].pc = "none"
    /\ ~last.played
    /\ ~sinkBusy

\* C19: once the avatar start has reported a quota or billing error the
\* avatar path is off (so that the local path can take the call over).
QuotaErrorTurnsAvatarPathOff == bey.quotaExceeded => ~useBey

\* C20: at most one session has been created since the last call ended,
\* whatever the interleaving of the calls of startCall.
AtMostOneSessionUntilCallEnds == startCalls.open <= 1

\* ---- properties of identification ----------------------------------------
\* C21: every session request that is sent carries a phone input with at
\* least ten digits, from whichever control the call was started.
SessionRequestCarriesValidPhone == last.posted => ~StartDisabled(last.phone)

\* ---- properties of the end of a call ------------------------------------
\* The step in which the request of an endCall settles and endCall runs to
\* its end.
EndCallReturns ==
  \/ endUser' < endUser
  \/ \E t \in TurnIds : turns[t].pc = "awaitEnd" /\ turns'[t].pc = "stream"

\* C22: when endCall has run to its end on a call with a session, the call
\* is not active, in the state and in its ref mirror, whether the call-end
\* request succeeded or failed.
EndCallLeavesCallInactive ==
  [][EndCallReturns => (~isCallActive' /\ ~isCallActiveRef')]_vars

\* ---- properties of the pause ---------------------------------------------
\* C23: a step taken while the mic is paused, and which is not the resume
\* or the start of a new call, opens no recording; and the step that pauses
\* the mic leaves the call-active flag, its mirror and the session as they
\* were.
PausedMicOpensNoRecording ==
  [][/\ (isMicPausedRef /\ isMicPausedRef') => last'.started = 0
     /\ (~isMicPausedRef /\ isMicPausedRef')
          => /\ isCallActive' = isCallActive
             /\ isCallActiveRef' = isCallActiveRef
             /\ sessionId' = sessionId]_vars

\* ---- properties of a failed turn ----------------------------------------
\* C24: on the local path the step in which a turn fails shows the error and
\* leaves processing cleared, and when at that step the call is active (in
\* the state and in its mirror) and the mic is not paused, a step that opens
\* a recording follows, unless a recording is open already or the call
\* ends, the mic is paused or a turn begins first.
FailedTurnLeadsToListening ==
  /\ [](last.failed => ~isProcessing)
  /\ (/\ last.failed /\ ~useBey /\ isCallActive /\ isCallActiveRef
      /\ ~isMicPausedRef)
       ~> \/ last.started # 0
          \/ OpenSessions # {}
          \/ ~isCallActive \/ ~isCallActiveRef
          \/ isMicPausedRef
          \/ isProcessing
          \/ NoRoom

\* ---- properties of the mute ----------------------------------------------
\* C25: while output is muted no audio frame goes to the worklet and the
\* speaking flag is not set by a frame, also for the frames of a turn that
\* was under way when the mute was turned on.
MutedOutputPlaysNothing ==
  [][(last'.op = "audio" /\ isMuted) => (~last'.played /\ isSpeaking' = isSpeaking)]_vars

\* ---- properties of the teardown ------------------------------------------
\* C26: the step in which endCall runs (from the End button or from a done
\* event) leaves no safety-cutoff timer and no auto-restart timer pending
\* and the microphone stream released, whatever the phase of the call.
EndCallLeavesNoTimerNoStream ==
  (last.op \in {"endCall", "doneEndCall"} /\ ~isCallActiveRef)
    => (safetyTimers = {} /\ restartTimers = {} /\ ~streamRef)

\* ---- properties of the start of a call -----------------------------------
\* C27: on the local path the step in which the microphone request of
\* startCall is denied and reported sends no session request, creates no
\* session, leaves the call inactive and schedules no auto-restart; and a
\* request of startCall that settles without a session request was
\* reported as denied.
MicDeniedAbortsCallStart ==
  [][/\ last'.denied =>
          /\ ~useBey
          /\ ~last'.posted
          /\ startCalls'.fetch = startCalls.fetch
          /\ sessionsCreated' = sessionsCreated
          /\ isCallActive' = isCallActive
          /\ isCallActiveRef' = isCallActiveRef
          /\ sessionId' = sessionId
          /\ ~last'.scheduled
          /\ restartTimers' = restartTimers
          /\ streamRef' = streamRef
     /\ (startCalls'.mic < startCalls.mic /\ ~last'.posted) => last'.denied]_vars

\* C27 witness: the one call that was started has just been denied the
\* microphone: nothing is pending, no session exists and the call is not
\* active.
CallStartAborted ==
  /\ last.denied
  /\ startCalls.mic = 0 /\ startCalls.fetch = 0
  /\ sessionsCreated = 0
  /\ ~isCallActive /\ ~streamRef
  /\ restartTimers = {}

\* The text after digit words are replaced by numerals and separators are
\* stripped.
Numerals(text) == SelectSeq(replaceNumberWords(toLowerCase(text), 1), IsKept)

\* The runs of consecutive digits of s that cannot be extended, of at least
\* ten digits: pairs of first and last position.
LongRuns(s) ==
  {ab \in (1..Len(s)) \X (1..Len(s)) :
     /\ ab[2] - ab[1] >= 9
     /\ \A i \in ab[1]..ab[2] : IsDigit(s[i])
     /\ ab[1] = 1 \/ ~IsDigit(s[ab[1] - 1])
     /\ ab[2] = Len(s) \/ ~IsDigit(s[ab[2] + 1])}

\* The last ten digits of the first such run, none without one.
LastTenOfFirstRun(text) ==
  LET s == Numerals(text)
      runs == LongRuns(s)
  IN IF runs = {}
     THEN null
     ELSE LET run == CHOOSE ab \in runs : \A cd \in runs : ab[1] <= cd[1]
          IN SubSeq(s, run[2] - 9, run[2])

SpokenNumber == joinSpeech(<<Says.myNumberIs, Says.nineSixEight, Says.sixZeroNineZero>>)

DashedNumber == joinSpeech(<<Says.call, Says.dashedNumber, Says.please>>)

\* C28: the phone number extracted from a text is the last ten digits of the
\* first run of at least ten consecutive digits of the text after digit
\* words are replaced by numerals and separators are stripped, and none when
\* there is no such run; the spoken number gives 9686456090 and the dashed
\* one 5551234567.
PhoneIsLastTenOfFirstRun ==
  extract.applied =>
    /\ extract.phone = LastTenOfFirstRun(extract.text)
    /\ extract.text = SpokenNumber =>
         extract.phone = <<"9", "6", "8", "6", "4", "5", "6", "0", "9", "0">>
    /\ extract.text = DashedNumber =>
         extract.phone = <<"5", "5", "5", "1", "2", "3", "4", "5", "6", "7">>

\* C28 witness: a number was extracted from a text whose first run has more
\* than ten digits, spoken words among them.
PhoneExtractedFromLongRun ==
  /\ extract.applied
  /\ extract.phone # null
  /\ LET s == Numerals(extract.text)
     IN \E ab \in LongRuns(s) : ab[2] - ab[1] > 9
  /\ \E i \in 1..Len(extract.text) : WordAt(toLowerCase(extract.text), i, numberWords[10].word)

\* The positions of text at which a pattern with the beginnings heads
\* matches.
MatchesOf(text, heads) ==
  {i \in 1..Len(text) : \E h \in heads : captureAt(text, i, h) # null}

\* What the first match of the pattern captures: its letters, none without a
\* match.
CaptureOf(text, heads) ==
  IF MatchesOf(text, heads) = {}
  THEN null
  ELSE LET i == CHOOSE m \in MatchesOf(text, heads) :
                  \A n \in MatchesOf(text, heads) : m <= n
           h == CHOOSE g \in heads : captureAt(text, i, g) # null
       IN captureAt(text, i, h)

\* The capture, capitalized, of the first of patterns whose capture is not a
\* false positive; none when no pattern has such a capture.
FirstIntroduction(text, patterns) ==
  LET good == {p \in 1..Len(patterns) :
                 /\ CaptureOf(text, patterns[p]) # null
                 /\ toLowerCase(CaptureOf(text, patterns[p])) \notin falsePositives}
  IN IF good = {}
     THEN null
     ELSE LET p == CHOOSE q \in good : \A r \in good : q <= r
              name == CaptureOf(text, patterns[p])
          IN <<toUpperChar(name[1])>>
               \o [i \in 1..(Len(name) - 1) |-> toLowerChar(name[i + 1])]

\* The patterns "my name is X", "I'm X" / "I am X", "this is X", "call me X"
\* and "name's X".
statedPatterns ==
  [namePatterns EXCEPT ![5] = {<<"n", "a", "m", "e", "'", "s">>}]

ThisIsJohn == joinSpeech(<<Says.thisIsJohn, Says.needAppointment>>)

\* C29 as stated: the name extracted from a text is the capitalized capture
\* of the first of the patterns "my name is X", "I'm X" / "I am X",
\* "this is X", "call me X", "name's X" whose capture is not a false
\* positive, and none when no pattern has such a capture.
NameIsFirstStatedIntroduction ==
  extract.applied => extract.name = FirstIntroduction(extract.text, statedPatterns)

\* C29: the name extracted from a text is the capitalized capture of the
\* first of the patterns "my name is X", "I'm X" / "I am X", "this is X",
\* "call me X", "name's X" / "name is X" whose capture is not a false
\* positive, and none when no pattern has such a capture; "Hi, this is
\* John, I need an appointment" gives John and "I'm calling about a refund"
\* gives none.
NameIsFirstIntroduction ==
  extract.applied =>
    /\ extract.name = FirstIntroduction(extract.text, namePatterns)
    /\ extract.text = ThisIsJohn => extract.name = <<"J", "o", "h", "n">>
    /\ extract.text = Says.callingAboutRefund => extract.name = null

\* C29 witness: a name was extracted by a later pattern after the capture of
\* an earlier one was rejected as a false positive.
NameExtractedAfterFalsePositive ==
  /\ extract.applied
  /\ extract.name # null
  /\ \E p \in 1..Len(namePatterns) :
       /\ CaptureOf(extract.text, namePatterns[p]) # null
       /\ toLowerCase(CaptureOf(extract.text, namePatterns[p])) \in falsePositives
       /\ \E q \in (p + 1)..Len(namePatterns) :
            /\ CaptureOf(extract.text, namePatterns[q]) # null
            /\ extract.name = capitalize(CaptureOf(extract.text, namePatterns[q]))

\* C30: voice detection closes an open recording only at a tick at which the
\* loop of that recording has heard speech and more than SILENCE_DURATION
\* has passed since its last sample above the threshold, and the tick of
\* that loop at which this first holds, the sample not above the threshold,
\* closes the recording.
VadStopsAtFirstSilentTick ==
  [][\A r \in RecorderIds :
       /\ (/\ recorders[r].state = "recording"
           /\ recorders'[r].state = "stopping"
           /\ recorders'[r].by = "vad")
            => (/\ vad[r].on /\ vad[r].hasSpoken
                /\ vad[r].silent > SILENCE_DURATION)
       /\ (/\ last'.op = "vadTick"
           /\ recorders[r].state = "recording"
           /\ vad[r].on /\ vad[r].hasSpoken
           /\ vad[r].silent > SILENCE_DURATION
           /\ ~vad'[r].on)
            => recorders'[r].state = "stopping"]_vars

\* C31: at most one voice-detection loop is running at any time, and a
\* recording that voice detection closes is closed by the loop that was
\* started for it.
OneVadLoopStopsOwnSession ==
  [][/\ Cardinality({l \in RecorderIds : vad'[l].on}) <= 1
     /\ \A r \in RecorderIds :
          (/\ recorders[r].state = "recording"
           /\ recorders'[r].state = "stopping"
           /\ recorders'[r].by = "vad")
            => (vad[r].on /\ ~vad'[r].on)]_vars

\* C32: the step in which a turn leaves sendVoiceMessage clears the
\* processing flag, whether the stream ended, the response was not OK or
\* had no body, or reading it failed; a turn that leaves without having had
\* a stream has failed; a failure shows one toast and nothing else shows
\* one.
TurnExitClearsProcessing ==
  [][/\ (/\ turns[ConsumerTurn].pc \in {"request", "stream"}
         /\ turns'[ConsumerTurn].pc = "over")
          => /\ ~isProcessing'
             /\ turns[ConsumerTurn].pc = "request" => last'.failed
             /\ consumer'.toasts = consumer.toasts + (IF last'.failed THEN 1 ELSE 0)
     /\ turns'[ConsumerTurn].pc # "over" => consumer'.toasts = consumer.toasts
     /\ turns[ConsumerTurn].pc = "over" => turns'[ConsumerTurn].pc = "over"
     /\ consumer'.toasts <= 1]_vars

\* C32 witness: reading the stream failed after an event of it was
\* dispatched: one toast, the processing flag clear.
StreamFailureSurfacedOnce ==
  /\ turns[ConsumerTurn].pc = "over"
  /\ last.failed
  /\ consumer.dispatched # <<>>
  /\ consumer.toasts = 1
  /\ ~isProcessing

\* C33: an event of a turn that was started under an earlier call than the
\* one now active plays no audio and schedules no restart.
LateEventsLeaveNewCallAlone ==
  [][\A t \in TurnIds :
       (/\ turns'[t].used = turns[t].used + 1
        /\ isCallActive /\ sessionId # 0
        /\ turns[t].sessionId # sessionId)
         => /\ ~last'.played /\ ~last'.scheduled
            /\ isSpeaking' = isSpeaking
            /\ sinkBusy' = sinkBusy
            /\ restartTimers' = restartTimers]_vars

\* C34: the transcript posted by the end request that a done event with the
\* end-of-call flag starts has one line for every message appended so far,
\* in order, the messages of that turn among them.
PostedTranscriptHasEveryMessage ==
  [][(/\ last'.op = "doneEndCall"
      /\ turns[ConsumerTurn].pc = "stream"
      /\ turns'[ConsumerTurn].pc = "awaitEnd")
       => consumer'.transcript = Transcript(consumer'.messages)]_vars

\* C35: no turn request is sent while an endCall is under way or after the
\* call has ended: the clip of a recording that endCall stopped is not
\* handed on as a turn.
NoTurnAfterEndCall ==
  [][\A t \in TurnIds :
       (turns[t].pc = "none" /\ turns'[t].pc = "request")
         => ~(\/ endUser > 0
              \/ ~isCallActive
              \/ \E u \in TurnIds : turns[u].pc = "awaitEnd")]_vars

\* C36: while the call stays active after a request of the avatar component
\* has failed, the component sends no further request unless Retry is
\* pressed.
NoAvatarRetryWithoutUser ==
  [][(/\ bey'.starts = bey.starts + 1
      /\ bey.failedIn # 0
      /\ bey.failedIn = sessionId
      /\ rendered.isCallActive)
       => bey'.failedIn = 0]_vars

\* C37: sendContext publishes a message at most once, and a retry that
\* runs when the room has become connected publishes its message.
ContextPublishedOnceAndByRetry ==
  /\ [](\A m \in Contexts : context.published[m] <= 1)
  /\ [][\A t \in context.timers :
          (t \notin context'.timers /\ context.roomRef /\ context.connected)
            => context'.published[t.msg] = 1]_vars

\* C38: at most one automatic lookup is in flight, and a further automatic
\* lookup is requested only after the cooldown of the last one has elapsed,
\* the identified user was cleared, or a call has started.
OneAutoLookupUntilCooldown ==
  /\ [](Cardinality({q \in lookup.requests : q.auto}) <= 1)
  /\ [][lookup'.latest # lookup.latest => lookup.allowed]_vars

\* C39: a recording of the animated avatar in which the user has spoken and
\* then stays silent is eventually stopped.
SilentRecordingIsStopped ==
  \A k \in ChainIds :
    (anim.chains[k].pc = "recording" /\ anim.chains[k].user = "silent")
      ~> (anim.chains[k].pc # "recording")

====
